---- MODULE Spec2Model ----
(***************************************************************************)
(* Verification model of the Mistral workflow engine vendored in the       *)
(* repository: the state machine (workflow/states.py), the engine control  *)
(* surface (engine/default_engine.py), the data flow (workflow/            *)
(* data_flow.py), the task controller (api/controllers/v2/task.py) and the *)
(* workflow service (services/workflows.py).                               *)
(*                                                                         *)
(* Python dicts are functions over a finite set of keys; a Python          *)
(* exception is the name of its class, given as a string result.  Each     *)
(* part of the engine has its own variables and its own specification;     *)
(* the variables of the other parts stay at their idle values.             *)
(***************************************************************************)
EXTENDS Integers, Sequences, FiniteSets, TLC

VARIABLES
    sm_from,        \* states: first argument of is_valid_transition
    sm_to,          \* states: second argument of is_valid_transition
    sm_result       \* states: what the call returned or raised ("none" before)

VARIABLES
    st_db,          \* start: the store, [wf: workflow execution rows, tasks: task rows]
    st_call,        \* start: <<>> or <<arguments of the last start_workflow>>
    st_ret,         \* start: <<>> or <<the execution the last start_workflow returned>>
    st_gen,         \* start: how many execution ids the engine has generated
    st_exc          \* start: <<>> or <<the exception the last start_workflow raised>>

VARIABLES
    oc_db,          \* complete: the store, [task, actions, triggered]
    oc_pc,          \* complete: per engine worker, "idle" or "tx" (inside the transaction)
    oc_arg,         \* complete: per worker, the notification it is processing
    oc_stale,       \* complete: per worker, has the store changed since its transaction read it
    oc_started,     \* complete: notifications delivered so far
    oc_delivered,   \* complete: the actions a processed notification was for
    oc_ret          \* complete: <<>> or <<what the last on_action_complete returned>>

VARIABLES
    api_task,       \* task API: the persisted task execution [name, state, with_items]
    api_req,        \* task API: <<>> or <<the body of the last PUT>>
    api_resp,       \* task API: "" or 200 or the message of the exception raised
    api_calls,      \* task API: calls of the engine's rerun_workflow, [reset, skip] each
    api_failures,   \* task API: how often the rerun task has failed again
    api_step        \* task API: the operation that acted last

VARIABLES
    hb_db,          \* heartbeats: last_heartbeat of each stored action execution (0: never)
    hb_clock,       \* heartbeats: the time of the last process_action_heartbeats call
    hb_call,        \* heartbeats: <<>> or <<[ids, fault] of the last call>>
    hb_exc          \* heartbeats: "" or the exception the last call raised

VARIABLES
    fl_publish,     \* data flow: per task, the publish clause of its definition
    fl_strategy,    \* data flow: CONF.engine.merge_strategy
    fl_tasks,       \* data flow: the task executions created so far, by name
    fl_context,     \* data flow: wf_ex.context
    fl_done         \* data flow: the tasks in the order they completed

VARIABLES
    rs_task,        \* task result: the task execution (with_items, executions)
    rs_stored,      \* task result: the executions in the order they were loaded
    rs_result       \* task result: what get_task_execution_result returned

VARIABLES
    up_db,          \* action update: states of the workflow, its tasks, their actions
    up_call,        \* action update: <<>> or <<arguments of the last on_action_update>>
    up_ret,         \* action update: <<>> or <<the action execution returned>>
    up_exc,         \* action update: "" or the exception the last call raised
    up_n            \* action update: number of calls made

VARIABLES
    env_wf,         \* env update: the workflow execution (state, params.env, context.__env)
    env_call,       \* env update: <<>> or <<the env of the last call>>
    env_exc,        \* env update: "" or the exception the last call raised
    env_n           \* env update: number of calls made

VARIABLES
    vw_dicts,       \* context view: the arguments of ContextView(*dicts)
    vw_strategy,    \* context view: CONF.engine.merge_strategy
    vw_key,         \* context view: the key looked up
    vw_default,     \* context view: the default passed to get
    vw_res          \* context view: <<>> or <<what view[key] and view.get gave>>

VARIABLES
    cv_dicts,       \* strategies: the arguments of ContextView(*dicts)
    cv_key,         \* strategies: the key looked up
    cv_res          \* strategies: <<>> or <<what the view gave under each strategy>>

VARIABLES
    uc_task_execs,  \* upstream: the finished predecessors, in the order passed
    uc_last,        \* upstream: position of the predecessor that finished last
    uc_strategy,    \* upstream: CONF.engine.merge_strategy
    uc_res          \* upstream: <<>> or <<the contexts evaluated>>

VARIABLES
    we_db,          \* environment: the workflow executions, by id
    we_id,          \* environment: id of the execution asked about
    we_res          \* environment: <<>> or <<the dict returned>>

VARIABLES
    pb_task_ex,     \* publish: the task execution (state, in_context, published)
    pb_context,     \* publish: wf_ex.context
    pb_publish,     \* publish: the publish clause of the task
    pb_strategy,    \* publish: CONF.engine.merge_strategy
    pb_calls        \* publish: calls of publish_variables made

VARIABLES
    tx_db,          \* transactions: the committed task rows and workflow row
    tx_publish,     \* transactions: the publish clause of each task
    tx_session,     \* transactions: per engine call, <<>> or <<its session>>
    tx_pc,          \* transactions: per engine call, where it stands
    tx_seen         \* transactions: <<>> or <<what a reader transaction read>>

VARIABLES
    ck_db           \* completion check: workflow executions and task executions

VARIABLES
    cs_db,          \* concurrent start: the committed executions and tasks
    cs_call,        \* concurrent start: per worker, the start_workflow request
    cs_pc,          \* concurrent start: per worker, where its call stands
    cs_session,     \* concurrent start: per worker, <<>> or <<its session>>
    cs_ret,         \* concurrent start: per worker, what its call returned
    cs_exc,         \* concurrent start: per worker, what its call raised
    cs_commits      \* concurrent start: the workers whose insert was committed

VARIABLES
    rt_op,          \* retry: the engine operation called
    rt_store,       \* retry: the value the operation reads from the store
    rt_errors,      \* retry: transient storage errors still to come
    rt_attempts,    \* retry: attempts of the operation made
    rt_out          \* retry: <<>> or <<what the caller got>>

VARIABLES
    ex_in_context,  \* expression context: task_ex.in_context
    ex_wf_ex,       \* expression context: the workflow execution
    ex_strategy,    \* expression context: CONF.engine.merge_strategy
    ex_key,         \* expression context: the key an expression reads
    ex_res          \* expression context: <<>> or <<what the view gave>>

VARIABLES
    rn_wf,          \* run: per execution id, "none" or the state of the workflow
    rn_tasks        \* run: per execution id, its task executions by name

VARIABLES
    ch_db,          \* root chain: the workflow executions, by id
    ch_wf_ex,       \* root chain: id of the wf_ex argument of the current call
    ch_depth,       \* root chain: nested calls of the lookup under way
    ch_res          \* root chain: <<>> or <<how the lookup ended>>

VARIABLES
    sa_db,          \* start_action: the persisted action executions
    sa_scheduled,   \* start_action: ids of the action executions scheduled
    sa_runs,        \* start_action: actions run inside a call so far
    sa_calls,       \* start_action: the calls made, in order
    sa_out          \* start_action: <<>> or <<what the last call gave>>

VARIABLES
    wk_trail        \* walk: the states an execution has had, in order

VARIABLES
    lm_session,     \* llm_app: request.session['model'] of each session
    lm_context,     \* llm_app: the module's conversation_context list
    lm_call,        \* llm_app: <<>> or <<the last call of model.query>>
    lm_resp,        \* llm_app: <<>> or <<the last JsonResponse>>
    lm_log          \* llm_app: the requests answered with 200, in order

varsStates == <<sm_from, sm_to, sm_result>>
varsStart == <<st_db, st_call, st_ret, st_gen, st_exc>>
varsComplete ==
    <<oc_db, oc_pc, oc_arg, oc_stale, oc_started, oc_delivered, oc_ret>>
varsApi == <<api_task, api_req, api_resp, api_calls, api_failures, api_step>>
varsHeartbeat == <<hb_db, hb_clock, hb_call, hb_exc>>
varsFlow == <<fl_publish, fl_strategy, fl_tasks, fl_context, fl_done>>
varsResult == <<rs_task, rs_stored, rs_result>>
varsUpdate == <<up_db, up_call, up_ret, up_exc, up_n>>
varsEnv == <<env_wf, env_call, env_exc, env_n>>
varsView == <<vw_dicts, vw_strategy, vw_key, vw_default, vw_res>>
varsStrategies == <<cv_dicts, cv_key, cv_res>>
varsUpstream == <<uc_task_execs, uc_last, uc_strategy, uc_res>>
varsEnvDict == <<we_db, we_id, we_res>>
varsPublish == <<pb_task_ex, pb_context, pb_publish, pb_strategy, pb_calls>>
varsTx == <<tx_db, tx_publish, tx_session, tx_pc, tx_seen>>
varsCheck == <<ck_db>>
varsConcurrentStart ==
    <<cs_db, cs_call, cs_pc, cs_session, cs_ret, cs_exc, cs_commits>>
varsRetry == <<rt_op, rt_store, rt_errors, rt_attempts, rt_out>>
varsExprCtx == <<ex_in_context, ex_wf_ex, ex_strategy, ex_key, ex_res>>
varsRun == <<rn_wf, rn_tasks>>
varsChain == <<ch_db, ch_wf_ex, ch_depth, ch_res>>
varsAction == <<sa_db, sa_scheduled, sa_runs, sa_calls, sa_out>>
varsWalk == <<wk_trail>>
varsLlm == <<lm_session, lm_context, lm_call, lm_resp, lm_log>>

vars ==
    <<varsStates, varsStart, varsComplete, varsApi, varsHeartbeat, varsFlow,
      varsResult, varsUpdate, varsEnv, varsView, varsStrategies,
      varsUpstream, varsEnvDict, varsPublish, varsTx, varsCheck,
      varsConcurrentStart, varsRetry, varsExprCtx, varsRun, varsChain,
      varsAction, varsWalk, varsLlm>>

\* The values the variables of a part have while another part is checked.
IdleStates == sm_from = "IDLE" /\ sm_to = "IDLE" /\ sm_result = "none"
IdleStart ==
    /\ st_db = [wf |-> {}, tasks |-> {}]
    /\ st_call = <<>>
    /\ st_ret = <<>>
    /\ st_gen = 0
    /\ st_exc = <<>>

IdleComplete ==
    /\ oc_db = [task |-> [state |-> "IDLE", processed |-> FALSE],
                actions |-> <<>>, triggered |-> 0]
    /\ oc_pc = <<>>
    /\ oc_arg = <<>>
    /\ oc_stale = <<>>
    /\ oc_started = 0
    /\ oc_delivered = {}
    /\ oc_ret = <<>>

IdleApi ==
    /\ api_task = [name |-> "task", state |-> "IDLE", with_items |-> FALSE]
    /\ api_req = <<>>
    /\ api_resp = ""
    /\ api_calls = <<>>
    /\ api_failures = 0
    /\ api_step = "init"

IdleHeartbeat ==
    /\ hb_db = <<>>
    /\ hb_clock = 0
    /\ hb_call = <<>>
    /\ hb_exc = ""

IdleFlow ==
    /\ fl_publish = <<>>
    /\ fl_strategy = "replace"
    /\ fl_tasks = <<>>
    /\ fl_context = <<>>
    /\ fl_done = <<>>
IdleResult ==
    /\ rs_task = <<>>
    /\ rs_stored = <<>>
    /\ rs_result = <<>>
IdleUpdate ==
    /\ up_db = <<>>
    /\ up_call = <<>>
    /\ up_ret = <<>>
    /\ up_exc = ""
    /\ up_n = 0
IdleEnv ==
    /\ env_wf = <<>>
    /\ env_call = <<>>
    /\ env_exc = ""
    /\ env_n = 0
IdleView ==
    /\ vw_dicts = <<>>
    /\ vw_strategy = "replace"
    /\ vw_key = ""
    /\ vw_default = <<>>
    /\ vw_res = <<>>
IdleStrategies ==
    /\ cv_dicts = <<>>
    /\ cv_key = ""
    /\ cv_res = <<>>
IdleUpstream ==
    /\ uc_task_execs = <<>>
    /\ uc_last = 0
    /\ uc_strategy = ""
    /\ uc_res = <<>>
IdleEnvDict ==
    /\ we_db = <<>>
    /\ we_id = 0
    /\ we_res = <<>>
IdlePublish ==
    /\ pb_task_ex = <<>>
    /\ pb_context = <<>>
    /\ pb_publish = <<>>
    /\ pb_strategy = ""
    /\ pb_calls = 0
IdleTx ==
    /\ tx_db = <<>>
    /\ tx_publish = <<>>
    /\ tx_session = <<>>
    /\ tx_pc = <<>>
    /\ tx_seen = <<>>
IdleCheck == ck_db = [wf |-> {}, tasks |-> {}]
IdleConcurrentStart ==
    /\ cs_db = [wf |-> {}, tasks |-> {}]
    /\ cs_call = <<>>
    /\ cs_pc = <<>>
    /\ cs_session = <<>>
    /\ cs_ret = <<>>
    /\ cs_exc = <<>>
    /\ cs_commits = {}
IdleRetry ==
    /\ rt_op = ""
    /\ rt_store = 0
    /\ rt_errors = 0
    /\ rt_attempts = 0
    /\ rt_out = <<>>
IdleExprCtx ==
    /\ ex_in_context = <<>>
    /\ ex_wf_ex = <<>>
    /\ ex_strategy = ""
    /\ ex_key = ""
    /\ ex_res = <<>>
IdleRun ==
    /\ rn_wf = <<>>
    /\ rn_tasks = <<>>
IdleChain ==
    /\ ch_db = <<>>
    /\ ch_wf_ex = 0
    /\ ch_depth = 0
    /\ ch_res = <<>>
IdleAction ==
    /\ sa_db = {}
    /\ sa_scheduled = {}
    /\ sa_runs = 0
    /\ sa_calls = <<>>
    /\ sa_out = <<>>
IdleWalk == wk_trail = <<>>
IdleLlm ==
    /\ lm_session = <<>>
    /\ lm_context = <<>>
    /\ lm_call = <<>>
    /\ lm_resp = <<>>
    /\ lm_log = <<>>

\* Everything outside part p is idle (in an initial state) ...
OthersIdle(p) ==
    /\ IF p = "States" THEN TRUE ELSE IdleStates
    /\ IF p = "Start" THEN TRUE ELSE IdleStart
    /\ IF p = "Complete" THEN TRUE ELSE IdleComplete
    /\ IF p = "Api" THEN TRUE ELSE IdleApi
    /\ IF p = "Heartbeat" THEN TRUE ELSE IdleHeartbeat
    /\ IF p = "Flow" THEN TRUE ELSE IdleFlow
    /\ IF p = "Result" THEN TRUE ELSE IdleResult
    /\ IF p = "Update" THEN TRUE ELSE IdleUpdate
    /\ IF p = "Env" THEN TRUE ELSE IdleEnv
    /\ IF p = "View" THEN TRUE ELSE IdleView
    /\ IF p = "Strategies" THEN TRUE ELSE IdleStrategies
    /\ IF p = "Upstream" THEN TRUE ELSE IdleUpstream
    /\ IF p = "EnvDict" THEN TRUE ELSE IdleEnvDict
    /\ IF p = "Publish" THEN TRUE ELSE IdlePublish
    /\ IF p = "Tx" THEN TRUE ELSE IdleTx
    /\ IF p = "Check" THEN TRUE ELSE IdleCheck
    /\ IF p = "ConcurrentStart" THEN TRUE ELSE IdleConcurrentStart
    /\ IF p = "Retry" THEN TRUE ELSE IdleRetry
    /\ IF p = "ExprCtx" THEN TRUE ELSE IdleExprCtx
    /\ IF p = "Run" THEN TRUE ELSE IdleRun
    /\ IF p = "Chain" THEN TRUE ELSE IdleChain
    /\ IF p = "Action" THEN TRUE ELSE IdleAction
    /\ IF p = "Walk" THEN TRUE ELSE IdleWalk
    /\ IF p = "Llm" THEN TRUE ELSE IdleLlm

\* ... and stays as it is (in a step of part p).
Frame(p) ==
    /\ IF p = "States" THEN TRUE ELSE UNCHANGED varsStates
    /\ IF p = "Start" THEN TRUE ELSE UNCHANGED varsStart
    /\ IF p = "Complete" THEN TRUE ELSE UNCHANGED varsComplete
    /\ IF p = "Api" THEN TRUE ELSE UNCHANGED varsApi
    /\ IF p = "Heartbeat" THEN TRUE ELSE UNCHANGED varsHeartbeat
    /\ IF p = "Flow" THEN TRUE ELSE UNCHANGED varsFlow
    /\ IF p = "Result" THEN TRUE ELSE UNCHANGED varsResult
    /\ IF p = "Update" THEN TRUE ELSE UNCHANGED varsUpdate
    /\ IF p = "Env" THEN TRUE ELSE UNCHANGED varsEnv
    /\ IF p = "View" THEN TRUE ELSE UNCHANGED varsView
    /\ IF p = "Strategies" THEN TRUE ELSE UNCHANGED varsStrategies
    /\ IF p = "Upstream" THEN TRUE ELSE UNCHANGED varsUpstream
    /\ IF p = "EnvDict" THEN TRUE ELSE UNCHANGED varsEnvDict
    /\ IF p = "Publish" THEN TRUE ELSE UNCHANGED varsPublish
    /\ IF p = "Tx" THEN TRUE ELSE UNCHANGED varsTx
    /\ IF p = "Check" THEN TRUE ELSE UNCHANGED varsCheck
    /\ IF p = "ConcurrentStart" THEN TRUE ELSE UNCHANGED varsConcurrentStart
    /\ IF p = "Retry" THEN TRUE ELSE UNCHANGED varsRetry
    /\ IF p = "ExprCtx" THEN TRUE ELSE UNCHANGED varsExprCtx
    /\ IF p = "Run" THEN TRUE ELSE UNCHANGED varsRun
    /\ IF p = "Chain" THEN TRUE ELSE UNCHANGED varsChain
    /\ IF p = "Action" THEN TRUE ELSE UNCHANGED varsAction
    /\ IF p = "Walk" THEN TRUE ELSE UNCHANGED varsWalk
    /\ IF p = "Llm" THEN TRUE ELSE UNCHANGED varsLlm

----------------------------------------------------------------------------
(* workflow/states.py *)

IDLE == "IDLE"
WAITING == "WAITING"
RUNNING == "RUNNING"
RUNNING_DELAYED == "DELAYED"
PAUSED == "PAUSED"
SUCCESS == "SUCCESS"
CANCELLED == "CANCELLED"
ERROR == "ERROR"
SKIPPED == "SKIPPED"

ALL == {IDLE, WAITING, RUNNING, RUNNING_DELAYED, PAUSED, SUCCESS, CANCELLED,
        ERROR, SKIPPED}

\* The dict literal with IDLE added to the row of PAUSED.
VALID_TRANSITIONS_paused_to_idle ==
    [s \in {IDLE, WAITING, RUNNING, RUNNING_DELAYED, PAUSED, SUCCESS,
            CANCELLED, ERROR} |->
        CASE s = IDLE -> {RUNNING, ERROR, CANCELLED}
          [] s = WAITING -> {RUNNING}
          [] s = RUNNING -> {PAUSED, RUNNING_DELAYED, SUCCESS, ERROR, CANCELLED}
          [] s = RUNNING_DELAYED -> {RUNNING, ERROR, CANCELLED}
          [] s = PAUSED -> {RUNNING, ERROR, CANCELLED, IDLE}
          [] s = SUCCESS -> {}
          [] s = CANCELLED -> {RUNNING}
          [] s = ERROR -> {RUNNING, SKIPPED}]

\* The dict literal: SKIPPED is not one of its keys.
VALID_TRANSITIONS ==
    [s \in {IDLE, WAITING, RUNNING, RUNNING_DELAYED, PAUSED, SUCCESS,
            CANCELLED, ERROR} |->
        CASE s = IDLE -> {RUNNING, ERROR, CANCELLED}
          [] s = WAITING -> {RUNNING}
          [] s = RUNNING -> {PAUSED, RUNNING_DELAYED, SUCCESS, ERROR, CANCELLED}
          [] s = RUNNING_DELAYED -> {RUNNING, ERROR, CANCELLED}
          [] s = PAUSED -> {RUNNING, ERROR, CANCELLED}
          [] s = SUCCESS -> {}
          [] s = CANCELLED -> {RUNNING}
          [] s = ERROR -> {RUNNING, SKIPPED}]

is_valid(state) == state \in ALL

is_invalid(state) == ~is_valid(state)

is_completed(state) == state \in {SUCCESS, ERROR, CANCELLED, SKIPPED}

\* is_valid_transition with the table looked up before the states are
\* compared.
is_valid_transition_table_first(from_state, to_state) ==
    IF is_invalid(from_state) \/ is_invalid(to_state) THEN "False"
    ELSE IF from_state \notin DOMAIN VALID_TRANSITIONS THEN "KeyError"
    ELSE IF to_state \in VALID_TRANSITIONS[from_state] THEN "True"
    ELSE IF from_state = to_state THEN "True"
    ELSE "False"

\* "True" / "False" are the returned booleans; "KeyError" is the exception
\* the subscript _VALID_TRANSITIONS[from_state] raises for a missing key.
is_valid_transition(from_state, to_state) ==
    IF is_invalid(from_state) \/ is_invalid(to_state) THEN "False"
    ELSE IF from_state = to_state THEN "True"
    ELSE IF from_state \notin DOMAIN VALID_TRANSITIONS THEN "KeyError"
    ELSE IF to_state \in VALID_TRANSITIONS[from_state] THEN "True"
    ELSE "False"

\* A state name no execution uses (test_stop_workflow_bad_status passes it).
UNRECOGNIZED == "PAUSE"

StateArgs == ALL \cup {UNRECOGNIZED}

InitStates ==
    /\ sm_from \in StateArgs
    /\ sm_to \in StateArgs
    /\ sm_result = "none"
    /\ OthersIdle("States")

\* One call is_valid_transition(sm_from, sm_to).
CallIsValidTransition ==
    /\ sm_result = "none"
    /\ sm_result' = is_valid_transition(sm_from, sm_to)
    /\ UNCHANGED <<sm_from, sm_to>>
    /\ Frame("States")

NextStates == CallIsValidTransition

SpecStates == InitStates /\ [][NextStates]_vars

\* The transition table as section 4.1 of the specification gives it.
SpecTable(s) ==
    CASE s = IDLE -> {RUNNING, ERROR, CANCELLED}
      [] s = WAITING -> {RUNNING}
      [] s = RUNNING -> {PAUSED, RUNNING_DELAYED, SUCCESS, ERROR, CANCELLED}
      [] s = RUNNING_DELAYED -> {RUNNING, ERROR, CANCELLED}
      [] s = PAUSED -> {RUNNING, ERROR, CANCELLED}
      [] s = ERROR -> {RUNNING, SKIPPED}
      [] OTHER -> {}

\* C1: for every pair of arguments is_valid_transition(from, to) returns true
\* exactly when both are recognized states and from = to or to is listed for
\* from in the table of section 4.1, and returns false otherwise.
C1_TableAsSpecified ==
    sm_result # "none" =>
        sm_result =
            IF /\ sm_from \in ALL
               /\ sm_to \in ALL
               /\ (sm_from = sm_to \/ sm_to \in SpecTable(sm_from))
            THEN "True" ELSE "False"

\* C15: is_valid_transition(s, t) returns false for s one of SUCCESS,
\* CANCELLED, SKIPPED and every t other than s, so no validated change leaves
\* these states.
C15_TerminalStatesHaveNoExit ==
    (/\ sm_result # "none"
     /\ sm_from \in {SUCCESS, CANCELLED, SKIPPED}
     /\ sm_to # sm_from)
    => sm_result = "False"

\* C16: is_valid_transition(s, s) returns true for each of the nine
\* recognized states, SKIPPED included.
C16_SelfTransitionValid ==
    (sm_result # "none" /\ sm_from \in ALL /\ sm_to = sm_from)
        => sm_result = "True"

\* C16 witness: is_valid_transition(SKIPPED, SKIPPED) returned true.
C16_Witness ==
    /\ sm_from = SKIPPED
    /\ sm_to = SKIPPED
    /\ sm_result = "True"

\* C36 as claimed: is_valid_transition returns a boolean for every pair of
\* arguments, and false for SKIPPED and any other recognized state.
C36_TransitionCheckTotal ==
    sm_result # "none" =>
        /\ sm_result \in {"True", "False"}
        /\ (sm_from = SKIPPED /\ sm_to \in ALL \ {SKIPPED}) => sm_result = "False"

----------------------------------------------------------------------------
(* workflow/states.py: an execution moved through validated transitions *)

\* Bound of the walk.
MaxWalk == 4            \* states an execution has, one after the other

InitWalk ==
    /\ wk_trail \in {<<s>> : s \in ALL}
    /\ OthersIdle("Walk")

\* The execution takes another state, which is_valid_transition allows.
Transition(to_state) ==
    /\ Len(wk_trail) < MaxWalk
    /\ to_state # wk_trail[Len(wk_trail)]
    /\ is_valid_transition(wk_trail[Len(wk_trail)], to_state) = "True"
    /\ wk_trail' = Append(wk_trail, to_state)
    /\ Frame("Walk")

NextWalk == \E to_state \in ALL : Transition(to_state)

SpecWalk == InitWalk /\ [][NextWalk]_vars

\* C37: no validated transition from another state leads into IDLE or into
\* WAITING, so IDLE and WAITING are the first state of an execution or none
\* of its states.
C37_IdleAndWaitingEntryOnly ==
    \A i \in 2..Len(wk_trail) : wk_trail[i] \notin {IDLE, WAITING}

\* C37 witness: an execution left IDLE, was paused and resumed.
C37_Witness == wk_trail = <<IDLE, RUNNING, PAUSED, RUNNING>>

----------------------------------------------------------------------------
(* engine/default_engine.py: start_workflow *)

\* Bounds of the start_workflow model.
MaxExplicitIds == 2     \* execution ids a caller may pass: 1..MaxExplicitIds
MaxGenerated == 1       \* executions started without an id

None == 0               \* wf_ex_id=None
ExplicitIds == 1..MaxExplicitIds
GeneratedId(n) == MaxExplicitIds + n

\* Workflows of the workbook: 'wb.wf' as started by the tests creates the
\* task execution 'task1'; 'wb.empty' has no runnable task.
WfIdentifiers == {"wb.wf", "wb.empty"}
RootTasks(wf_identifier) == IF wf_identifier = "wb.wf" THEN {"task1"} ELSE {}

\* Inputs of a start request ({'param2': 'Hi1'}, {'param2': 'Hi2'}).
WfInputs == {[param2 |-> "Hi1"], [param2 |-> "Hi2"]}

\* Inputs that do not fit the declaration of the workflow: none at all
\* (wf_input=None is passed on as {}), and one with an undeclared key.
BadWfInputs ==
    {<<>>,
     [param1 |-> "Hey", param2 |-> "Hi", unexpected_param |-> "val"],
     [unexpected_param |-> "val"]}

\* The input clause of the workflows: param1 has a default, param2 has not.
DeclaredInput == {"param1", "param2"}
RequiredInput == {"param2"}

\* validate_input: the keys missing from the input and those not declared.
validate_input(wf_input) ==
    [missing |-> RequiredInput \ DOMAIN wf_input,
     unexpected |-> DOMAIN wf_input \ DeclaredInput]

\* db_api.get_workflow_execution(id): the rows with that id.
get_workflow_execution(db, id) == {e \in db.wf : e.id = id}

\* check_and_complete left out.
check_and_complete_skipped(db, wf_ex_id) == db

\* check_and_complete completing a running workflow as soon as one of its
\* task executions is completed.
check_and_complete_on_first_completed(db, wf_ex_id) ==
    LET tasks == {t \in db.tasks : t.workflow_execution_id = wf_ex_id}
        done(e) == /\ e.id = wf_ex_id
                   /\ e.state = RUNNING
                   /\ \E t \in tasks : is_completed(t.state)
        final == IF \E t \in tasks : t.state = ERROR THEN ERROR ELSE SUCCESS
    IN [db EXCEPT !.wf =
            {IF done(e)
             THEN [e EXCEPT !.state = final, !.trail = Append(e.trail, final)]
             ELSE e : e \in db.wf}]

\* check_and_complete(wf_ex_id): a running workflow none of whose task
\* executions is in a non-completed state moves to its final state.
check_and_complete(db, wf_ex_id) ==
    LET tasks == {t \in db.tasks : t.workflow_execution_id = wf_ex_id}
        done(e) == /\ e.id = wf_ex_id
                   /\ e.state = RUNNING
                   /\ \A t \in tasks : is_completed(t.state)
        final == IF \E t \in tasks : t.state = ERROR THEN ERROR ELSE SUCCESS
    IN [db EXCEPT !.wf =
            {IF done(e)
             THEN [e EXCEPT !.state = final, !.trail = Append(e.trail, final)]
             ELSE e : e \in db.wf}]

\* wf_handler.start_workflow without the validation of the input.
wf_handler_start_workflow_unvalidated(db, wf_identifier, wf_ex_id, wf_input, gen) ==
    LET id == IF wf_ex_id = None THEN GeneratedId(gen + 1) ELSE wf_ex_id
        wf_ex == [id |-> id, wf_name |-> wf_identifier, input |-> wf_input,
                  state |-> RUNNING, trail |-> <<IDLE, RUNNING>>]
        tasks == {[workflow_execution_id |-> id, name |-> n, state |-> IDLE] :
                    n \in RootTasks(wf_identifier)}
    IN IF get_workflow_execution(db, id) # {}
       THEN [exc |-> "DBDuplicateEntryError", db |-> db, id |-> id,
             info |-> validate_input(wf_input)]
       ELSE [exc |-> "", id |-> id, info |-> validate_input(wf_input),
             db |-> [wf |-> db.wf \cup {wf_ex}, tasks |-> db.tasks \cup tasks]]

\* wf_handler.start_workflow: validates the input against the declaration
\* (InputException), creates the execution row (the store refuses a second
\* row with an existing id: DBDuplicateEntryError, and the transaction rolls
\* back), creates the task executions of the entry tasks in IDLE and moves
\* the workflow IDLE -> RUNNING.
wf_handler_start_workflow(db, wf_identifier, wf_ex_id, wf_input, gen) ==
    LET id == IF wf_ex_id = None THEN GeneratedId(gen + 1) ELSE wf_ex_id
        wf_ex == [id |-> id, wf_name |-> wf_identifier, input |-> wf_input,
                  state |-> RUNNING, trail |-> <<IDLE, RUNNING>>]
        tasks == {[workflow_execution_id |-> id, name |-> n, state |-> IDLE] :
                    n \in RootTasks(wf_identifier)}
        info == validate_input(wf_input)
    IN IF info.missing # {} \/ info.unexpected # {}
       THEN [exc |-> "InputException", db |-> db, id |-> id, info |-> info]
       ELSE IF get_workflow_execution(db, id) # {}
       THEN [exc |-> "DBDuplicateEntryError", db |-> db, id |-> id,
             info |-> info]
       ELSE [exc |-> "", id |-> id, info |-> info,
             db |-> [wf |-> db.wf \cup {wf_ex}, tasks |-> db.tasks \cup tasks]]

\* The engine without the except clause: DBDuplicateEntryError reaches the
\* caller and nothing is returned.
start_workflow_no_except(db, wf_identifier, wf_ex_id, wf_input, gen) ==
    LET r == wf_handler_start_workflow(db, wf_identifier, wf_ex_id, wf_input, gen)
    IN IF r.exc # ""
       THEN [db |-> db, ret |-> {},
             exc |-> <<[class |-> r.exc, info |-> r.info]>>]
       ELSE LET db2 == check_and_complete(r.db, r.id)
            IN [db |-> db2, ret |-> get_workflow_execution(db2, r.id),
                exc |-> <<>>]

\* The engine without the completion check after the start.
start_workflow_no_check(db, wf_identifier, wf_ex_id, wf_input, gen) ==
    LET r == wf_handler_start_workflow(db, wf_identifier, wf_ex_id, wf_input, gen)
    IN IF r.exc = "InputException"
       THEN [db |-> db, ret |-> {},
             exc |-> <<[class |-> r.exc, info |-> r.info]>>]
       ELSE IF r.exc = "DBDuplicateEntryError"
       THEN [db |-> db, ret |-> get_workflow_execution(db, wf_ex_id),
             exc |-> <<>>]
       ELSE [db |-> r.db, ret |-> get_workflow_execution(r.db, r.id),
             exc |-> <<>>]

\* DefaultEngine.start_workflow: what the store holds afterwards, the
\* clone(s) returned and the exception raised.  An exception other than
\* DBDuplicateEntryError leaves the transaction, which rolls back, and
\* reaches the caller.
start_workflow(db, wf_identifier, wf_ex_id, wf_input, gen) ==
    LET r == wf_handler_start_workflow(db, wf_identifier, wf_ex_id, wf_input, gen)
    IN IF r.exc = "InputException"
       THEN [db |-> db, ret |-> {},
             exc |-> <<[class |-> r.exc, info |-> r.info]>>]
       ELSE IF r.exc = "DBDuplicateEntryError"
       THEN [db |-> db, ret |-> get_workflow_execution(db, wf_ex_id),
             exc |-> <<>>]
       ELSE LET db2 == check_and_complete(r.db, r.id)
            IN [db |-> db2, ret |-> get_workflow_execution(db2, r.id),
                exc |-> <<>>]

InitStart == IdleStart /\ OthersIdle("Start")

StartWorkflow(wf_identifier, wf_ex_id, wf_input) ==
    /\ wf_ex_id = None => st_gen < MaxGenerated
    /\ LET r == start_workflow(st_db, wf_identifier, wf_ex_id, wf_input, st_gen)
       IN /\ st_db' = r.db
          /\ st_ret' = <<r.ret>>
          /\ st_exc' = r.exc
    /\ st_call' = <<[wf_identifier |-> wf_identifier, wf_ex_id |-> wf_ex_id,
                     wf_input |-> wf_input]>>
    /\ st_gen' = IF wf_ex_id = None /\ st_exc' = <<>>
                  THEN st_gen + 1 ELSE st_gen
    /\ Frame("Start")

NextStart ==
    \E wf_identifier \in WfIdentifiers, wf_ex_id \in ExplicitIds \cup {None},
       wf_input \in WfInputs :
        StartWorkflow(wf_identifier, wf_ex_id, wf_input)

SpecStart == InitStart /\ [][NextStart]_vars

\* The same engine with callers that also pass inputs which do not fit the
\* declaration.
NextStartAnyInput ==
    \E wf_identifier \in WfIdentifiers, wf_ex_id \in ExplicitIds \cup {None},
       wf_input \in WfInputs \cup BadWfInputs :
        StartWorkflow(wf_identifier, wf_ex_id, wf_input)

SpecStartAnyInput == InitStart /\ [][NextStartAnyInput]_vars

\* C12: a start_workflow call whose input lacks a required parameter or has
\* an undeclared key raises InputException naming exactly those keys, returns
\* nothing, and leaves the workflow executions and task executions as they
\* were.
C12_InvalidInputCreatesNothing ==
    [][st_call' # <<>> =>
        LET wf_input == st_call'[1].wf_input
            missing == RequiredInput \ DOMAIN wf_input
            unexpected == DOMAIN wf_input \ DeclaredInput
        IN (missing # {} \/ unexpected # {}) =>
              /\ st_exc' = <<[class |-> "InputException",
                              info |-> [missing |-> missing,
                                        unexpected |-> unexpected]]>>
              /\ st_ret' = <<{}>>
              /\ st_db' = st_db]_vars

\* C12 witness: with one execution stored, a start without param2 raised
\* InputException naming param2.
C12_Witness ==
    /\ st_exc # <<>>
    /\ st_exc[1].class = "InputException"
    /\ st_exc[1].info.missing = {"param2"}
    /\ st_db.wf # {}
    /\ st_ret = <<{}>>

\* C2: a start_workflow call with an explicit execution id that already
\* exists returns exactly the execution the first call created, with its
\* original input, leaves the store unchanged, and one execution with that id
\* exists afterwards.
C2_IdempotentStart ==
    [][\A e \in st_db.wf :
          (st_call' # <<>> /\ st_call'[1].wf_ex_id = e.id) =>
              /\ st_ret' = <<{e}>>
              /\ st_db' = st_db
              /\ Cardinality(get_workflow_execution(st_db', e.id)) = 1]_vars

\* C2 witness: the last call named an existing id with another input and got
\* the execution with the first input back.
C2_Witness ==
    /\ st_call # <<>> /\ st_ret # <<>>
    /\ st_call[1].wf_ex_id # None
    /\ \E e \in st_ret[1] : e.input # st_call[1].wf_input

\* C8: a workflow without runnable tasks is in SUCCESS when start_workflow
\* has returned, having gone IDLE -> RUNNING -> SUCCESS inside the call.
C8_EmptyWorkflowSucceedsInStart ==
    /\ \A e \in st_db.wf :
          RootTasks(e.wf_name) = {} =>
              e.state = SUCCESS /\ e.trail = <<IDLE, RUNNING, SUCCESS>>
    /\ st_ret # <<>> =>
          \A e \in st_ret[1] : RootTasks(e.wf_name) = {} => e.state = SUCCESS

\* C8 witness: a workflow without tasks was started and returned.
C8_Witness ==
    /\ st_ret # <<>>
    /\ \E e \in st_ret[1] : RootTasks(e.wf_name) = {} /\ e.state = SUCCESS
    /\ \E e \in st_db.wf : RootTasks(e.wf_name) = {} /\ Len(e.trail) = 3

----------------------------------------------------------------------------
(* engine/default_engine.py: on_action_complete *)

\* Bounds of the on_action_complete model.
MaxActions == 2         \* action executions of the task (with-items: one per item)
NumWorkers == 2         \* engine workers processing notifications concurrently
MaxDeliveries == 4      \* completion notifications delivered, redeliveries included

ActionIds == 1..MaxActions
Workers == 1..NumWorkers

\* ml_actions.Result: a result is a success or an error; its data stands for
\* itself.
Results == {"ok", "err"}
is_success(result) == result = "ok"

NoArg == [action_ex_id |-> 0, result |-> "ok"]

\* complete(task_ex): once every action execution of the task is completed
\* the task takes the aggregate state; downstream tasks are triggered only if
\* the task is not yet processed, and processed is set with the state.
task_complete(db) ==
    IF /\ ~is_completed(db.task.state)
       /\ \A a \in DOMAIN db.actions : is_completed(db.actions[a].state)
    THEN [db EXCEPT
            !.task.state =
                IF \A a \in DOMAIN db.actions : db.actions[a].state = SUCCESS
                THEN SUCCESS ELSE ERROR,
            !.task.processed = TRUE,
            !.triggered = IF db.task.processed THEN @ ELSE @ + 1]
    ELSE db

\* The handler without its guard: a completed action is completed again.
action_handler_on_action_complete_unguarded(db, action_ex_id, result) ==
    task_complete(
        [db EXCEPT !.actions[action_ex_id] =
            [state |-> IF is_success(result) THEN SUCCESS ELSE ERROR,
             output |-> result, accepted |-> TRUE]])

\* action_handler.on_action_complete(action_ex, result): no-op on a completed
\* action; otherwise state from result.is_success(), output stored, and the
\* owning task re-evaluated.
action_handler_on_action_complete(db, action_ex_id, result) ==
    IF is_completed(db.actions[action_ex_id].state)
    THEN db
    ELSE task_complete(
            [db EXCEPT !.actions[action_ex_id] =
                [state |-> IF is_success(result) THEN SUCCESS ELSE ERROR,
                 output |-> result, accepted |-> TRUE]])

\* The engine without @db_utils.retry_on_db_error: the storage conflict is
\* raised to the caller and the notification is lost.
on_action_complete_no_retry(db, stale, action_ex_id, result) ==
    IF stale
    THEN [outcome |-> "raised", db |-> db, ret |-> <<>>]
    ELSE LET db2 == action_handler_on_action_complete(db, action_ex_id, result)
         IN [outcome |-> "returned", db |-> db2,
             ret |-> <<[action_ex_id |-> action_ex_id, result |-> result,
                        action_ex |-> db2.actions[action_ex_id]]>>]

\* DefaultEngine.on_action_complete, from the commit of its transaction on: a
\* transaction whose reads are stale ends in a storage error and
\* retry_on_db_error runs the method again; otherwise the handler's writes
\* are committed and the clone of the action execution is returned.
on_action_complete(db, stale, action_ex_id, result) ==
    IF stale
    THEN [outcome |-> "retry", db |-> db, ret |-> <<>>]
    ELSE LET db2 == action_handler_on_action_complete(db, action_ex_id, result)
         IN [outcome |-> "returned", db |-> db2,
             ret |-> <<[action_ex_id |-> action_ex_id, result |-> result,
                        action_ex |-> db2.actions[action_ex_id]]>>]

\* A task in RUNNING whose action executions were all scheduled.
InitComplete ==
    /\ oc_db = [task |-> [state |-> RUNNING, processed |-> FALSE],
                actions |-> [a \in ActionIds |->
                    [state |-> RUNNING, output |-> "", accepted |-> FALSE]],
                triggered |-> 0]
    /\ oc_pc = [w \in Workers |-> "idle"]
    /\ oc_arg = [w \in Workers |-> NoArg]
    /\ oc_stale = [w \in Workers |-> FALSE]
    /\ oc_started = 0
    /\ oc_delivered = {}
    /\ oc_ret = <<>>
    /\ OthersIdle("Complete")

\* A notification reaches worker w, which opens the transaction and reads.
BeginOnActionComplete(w, action_ex_id, result) ==
    /\ oc_pc[w] = "idle"
    /\ oc_started < MaxDeliveries
    /\ oc_pc' = [oc_pc EXCEPT ![w] = "tx"]
    /\ oc_arg' = [oc_arg EXCEPT ![w] =
                    [action_ex_id |-> action_ex_id, result |-> result]]
    /\ oc_stale' = [oc_stale EXCEPT ![w] = FALSE]
    /\ oc_started' = oc_started + 1
    /\ UNCHANGED <<oc_db, oc_delivered, oc_ret>>
    /\ Frame("Complete")

\* Worker w reaches the end of the transaction block.
EndOnActionComplete(w) ==
    /\ oc_pc[w] = "tx"
    /\ LET r == on_action_complete(oc_db, oc_stale[w], oc_arg[w].action_ex_id,
                                   oc_arg[w].result)
       IN /\ oc_db' = r.db
          /\ oc_ret' = IF r.outcome = "returned" THEN r.ret ELSE oc_ret
          /\ oc_pc' = [oc_pc EXCEPT ![w] =
                          IF r.outcome = "retry" THEN "tx" ELSE "idle"]
          /\ oc_arg' = [oc_arg EXCEPT ![w] =
                          IF r.outcome = "retry" THEN @ ELSE NoArg]
          /\ oc_stale' = [v \in Workers |->
                            IF v = w THEN FALSE
                            ELSE oc_stale[v] \/ (oc_pc[v] = "tx" /\ r.db # oc_db)]
          /\ oc_delivered' = IF r.outcome = "retry" THEN oc_delivered
                             ELSE oc_delivered \cup {oc_arg[w].action_ex_id}
    /\ UNCHANGED oc_started
    /\ Frame("Complete")

NextComplete ==
    \/ \E w \in Workers, a \in ActionIds, r \in Results :
          BeginOnActionComplete(w, a, r)
    \/ \E w \in Workers : EndOnActionComplete(w)

SpecComplete == InitComplete /\ [][NextComplete]_vars

\* C3: an on_action_complete call that finds the action execution already in
\* SUCCESS or ERROR changes nothing in the store (state, output, triggered
\* downstream tasks) and returns the existing record.
C3_SecondCompleteIsNoOp ==
    [][\A w \in Workers :
          (/\ oc_pc[w] = "tx" /\ oc_pc'[w] = "idle"
           /\ is_completed(oc_db.actions[oc_arg[w].action_ex_id].state)) =>
              /\ oc_db' = oc_db
              /\ oc_ret' = <<[action_ex_id |-> oc_arg[w].action_ex_id,
                              result |-> oc_arg[w].result,
                              action_ex |->
                                  oc_db.actions[oc_arg[w].action_ex_id]]>>]_vars

\* C3 witness: a notification carrying an error returned an action execution
\* that an earlier notification had completed with SUCCESS.
C3_Witness ==
    /\ oc_ret # <<>>
    /\ oc_ret[1].result = "err"
    /\ oc_ret[1].action_ex.state = SUCCESS
    /\ oc_db.triggered = 1

----------------------------------------------------------------------------
(* api/controllers/v2/task.py: TasksController.put *)

\* Bound of the task API model.
MaxFailures == 1        \* times the task fails again after a rerun

\* The workflow execution the task belongs to.
WfExName == "flow"

\* Bodies of a PUT: an empty name is an absent field, reset is a tri-state
\* (wtypes Unset, true, false).
ReqNames == {"", "task", "other"}
ReqWfNames == {"", "flow", "other"}
ReqStates == {RUNNING, SKIPPED, SUCCESS}
ReqResets == {"Unset", "True", "False"}
Requests ==
    [name : ReqNames, workflow_name : ReqWfNames, state : ReqStates,
     reset : ReqResets]

TaskNameMismatch == "Task name does not match."
WfNameMismatch == "Workflow name does not match."
InvalidTaskState == "Invalid task state. Only updating task to RUNNING or SKIPPED is supported."
MustBeInError == "The current task execution must be in ERROR for rerun. Only updating task to rerun is supported."
ResetMandatory == "Reset field is mandatory to rerun task."
OnlyWithItems == "Only with-items task has the option to not reset."

\* The arguments the controller passes on: reset = task.reset or None.
RerunCall(task) ==
    [reset |-> IF task.reset = "True" THEN "True" ELSE "None",
     skip |-> task.state = SKIPPED]

\* The controller without the check of the persisted state.
put_unchecked_state(task_ex, wf_ex_name, task) ==
    IF task.name # "" /\ task.name # task_ex.name
    THEN [exc |-> TaskNameMismatch, call |-> <<>>]
    ELSE IF task.workflow_name # "" /\ task.workflow_name # wf_ex_name
    THEN [exc |-> WfNameMismatch, call |-> <<>>]
    ELSE IF task.state # RUNNING /\ task.state # SKIPPED
    THEN [exc |-> InvalidTaskState, call |-> <<>>]
    ELSE IF task.state = RUNNING /\ task.reset = "Unset"
    THEN [exc |-> ResetMandatory, call |-> <<>>]
    ELSE IF task.state = RUNNING /\ ~task_ex.with_items /\ task.reset # "True"
    THEN [exc |-> OnlyWithItems, call |-> <<>>]
    ELSE [exc |-> "", call |-> <<RerunCall(task)>>]

\* The controller without the checks of the names.
put_unchecked_names(task_ex, wf_ex_name, task) ==
    IF task.state # RUNNING /\ task.state # SKIPPED
    THEN [exc |-> InvalidTaskState, call |-> <<>>]
    ELSE IF task_ex.state # ERROR
    THEN [exc |-> MustBeInError, call |-> <<>>]
    ELSE IF task.state = RUNNING /\ task.reset = "Unset"
    THEN [exc |-> ResetMandatory, call |-> <<>>]
    ELSE IF task.state = RUNNING /\ ~task_ex.with_items /\ task.reset # "True"
    THEN [exc |-> OnlyWithItems, call |-> <<>>]
    ELSE [exc |-> "", call |-> <<RerunCall(task)>>]

\* The controller without the check that reset is given.
put_reset_optional(task_ex, wf_ex_name, task) ==
    IF task.name # "" /\ task.name # task_ex.name
    THEN [exc |-> TaskNameMismatch, call |-> <<>>]
    ELSE IF task.workflow_name # "" /\ task.workflow_name # wf_ex_name
    THEN [exc |-> WfNameMismatch, call |-> <<>>]
    ELSE IF task.state # RUNNING /\ task.state # SKIPPED
    THEN [exc |-> InvalidTaskState, call |-> <<>>]
    ELSE IF task_ex.state # ERROR
    THEN [exc |-> MustBeInError, call |-> <<>>]
    ELSE IF task.state = RUNNING /\ ~task_ex.with_items /\ task.reset # "True"
    THEN [exc |-> OnlyWithItems, call |-> <<>>]
    ELSE [exc |-> "", call |-> <<RerunCall(task)>>]

\* The controller taking an absent reset of a task without with-items as
\* true.
put_reset_defaulted(task_ex, wf_ex_name, task) ==
    IF task.name # "" /\ task.name # task_ex.name
    THEN [exc |-> TaskNameMismatch, call |-> <<>>]
    ELSE IF task.workflow_name # "" /\ task.workflow_name # wf_ex_name
    THEN [exc |-> WfNameMismatch, call |-> <<>>]
    ELSE IF task.state # RUNNING /\ task.state # SKIPPED
    THEN [exc |-> InvalidTaskState, call |-> <<>>]
    ELSE IF task_ex.state # ERROR
    THEN [exc |-> MustBeInError, call |-> <<>>]
    ELSE IF task.state = RUNNING /\ ~task_ex.with_items /\ task.reset = "Unset"
    THEN [exc |-> "", call |-> <<[reset |-> "True", skip |-> FALSE]>>]
    ELSE IF task.state = RUNNING /\ task.reset = "Unset"
    THEN [exc |-> ResetMandatory, call |-> <<>>]
    ELSE IF task.state = RUNNING /\ ~task_ex.with_items /\ task.reset # "True"
    THEN [exc |-> OnlyWithItems, call |-> <<>>]
    ELSE [exc |-> "", call |-> <<RerunCall(task)>>]

\* TasksController.put up to the engine call: the exception raised, or the
\* rerun_workflow call made.
put(task_ex, wf_ex_name, task) ==
    IF task.name # "" /\ task.name # task_ex.name
    THEN [exc |-> TaskNameMismatch, call |-> <<>>]
    ELSE IF task.workflow_name # "" /\ task.workflow_name # wf_ex_name
    THEN [exc |-> WfNameMismatch, call |-> <<>>]
    ELSE IF task.state # RUNNING /\ task.state # SKIPPED
    THEN [exc |-> InvalidTaskState, call |-> <<>>]
    ELSE IF task_ex.state # ERROR
    THEN [exc |-> MustBeInError, call |-> <<>>]
    ELSE IF task.state = RUNNING /\ task.reset = "Unset"
    THEN [exc |-> ResetMandatory, call |-> <<>>]
    ELSE IF task.state = RUNNING /\ ~task_ex.with_items /\ task.reset # "True"
    THEN [exc |-> OnlyWithItems, call |-> <<>>]
    ELSE [exc |-> "", call |-> <<RerunCall(task)>>]

\* DefaultEngine.rerun_workflow -> wf_handler.rerun_workflow: a failed task
\* goes ERROR -> SKIPPED on skip, ERROR -> RUNNING otherwise; a task that is
\* not in ERROR is left as it is.
rerun_workflow(task_ex, call) ==
    IF task_ex.state # ERROR THEN task_ex
    ELSE [task_ex EXCEPT !.state = IF call.skip THEN SKIPPED ELSE RUNNING]

InitApi ==
    /\ api_task \in [name : {"task"}, state : ALL, with_items : BOOLEAN]
    /\ api_req = <<>>
    /\ api_resp = ""
    /\ api_calls = <<>>
    /\ api_failures = 0
    /\ api_step = "init"
    /\ OthersIdle("Api")

\* PUT /v2/tasks/<id> with body task.
Put(task) ==
    /\ LET r == put(api_task, WfExName, task)
       IN IF r.call = <<>>
          THEN /\ api_resp' = r.exc
               /\ UNCHANGED <<api_task, api_calls>>
          ELSE /\ api_resp' = "200"
               /\ api_calls' = api_calls \o r.call
               /\ api_task' = rerun_workflow(api_task, r.call[1])
    /\ api_req' = <<task>>
    /\ api_step' = "put"
    /\ UNCHANGED api_failures
    /\ Frame("Api")

\* The rerun task fails again.
TaskFails ==
    /\ api_task.state = RUNNING
    /\ api_failures < MaxFailures
    /\ api_task' = [api_task EXCEPT !.state = ERROR]
    /\ api_failures' = api_failures + 1
    /\ api_step' = "fail"
    /\ UNCHANGED <<api_req, api_resp, api_calls>>
    /\ Frame("Api")

NextApi ==
    \/ \E task \in Requests : Put(task)
    \/ TaskFails

SpecApi == InitApi /\ [][NextApi]_vars

\* C5: a PUT for a task execution whose persisted state is not ERROR raises
\* an exception, which is the must-be-in-ERROR validation error when the
\* request is a well-formed rerun or skip; rerun_workflow is not called and
\* the task execution is unchanged.
C5_RerunNeedsError ==
    [][(api_step' = "put" /\ api_task.state # ERROR) =>
          /\ api_resp' # "200"
          /\ (/\ api_req'[1].name \in {"", api_task.name}
              /\ api_req'[1].workflow_name \in {"", WfExName}
              /\ api_req'[1].state \in {RUNNING, SKIPPED})
                => api_resp' = MustBeInError
          /\ api_calls' = api_calls
          /\ api_task' = api_task]_vars

\* C5 witness: a request that passed the name and state checks was refused
\* for a task that is not in ERROR, and the engine was not called.
C5_Witness ==
    /\ api_step = "put"
    /\ api_task.state \in ALL \ {ERROR}
    /\ api_resp = MustBeInError
    /\ api_req[1].reset = "True"
    /\ api_calls = <<>>

\* The request of the step names the persisted task and its workflow, or
\* leaves the names out.
NamesMatch ==
    /\ api_req'[1].name \in {"", api_task.name}
    /\ api_req'[1].workflow_name \in {"", WfExName}

\* C17: a PUT whose task name differs from the name of the persisted task
\* execution, or whose workflow name differs from the name of the owning
\* workflow execution, raises the matching exception; rerun_workflow is not
\* called and the task execution is unchanged.
C17_NameMismatchRefused ==
    [][(api_step' = "put" /\ ~NamesMatch) =>
          /\ api_resp' =
                IF api_req'[1].name \notin {"", api_task.name}
                THEN TaskNameMismatch ELSE WfNameMismatch
          /\ api_calls' = api_calls
          /\ api_task' = api_task]_vars

\* C17 witness: a rerun request with reset for a failed task was refused
\* for naming another workflow, and the engine was never called.
C17_Witness ==
    /\ api_step = "put"
    /\ api_task.state = ERROR
    /\ api_req[1] = [name |-> "task", workflow_name |-> "other",
                     state |-> RUNNING, reset |-> "True"]
    /\ api_resp = WfNameMismatch
    /\ api_calls = <<>>

\* C18: a PUT that sets a failed task to RUNNING and leaves reset out is
\* refused with 'Reset field is mandatory to rerun task.', for a with-items
\* task and for any other; rerun_workflow is not called and the task
\* execution is unchanged.
C18_ResetMandatoryForRerun ==
    [][(/\ api_step' = "put"
        /\ NamesMatch
        /\ api_task.state = ERROR
        /\ api_req'[1].state = RUNNING
        /\ api_req'[1].reset = "Unset")
       => /\ api_resp' = ResetMandatory
          /\ api_calls' = api_calls
          /\ api_task' = api_task]_vars

\* C18 witness: the rerun of a failed with-items task without reset was
\* refused.
C18_Witness ==
    /\ api_step = "put"
    /\ api_task.state = ERROR
    /\ api_task.with_items
    /\ api_req[1].state = RUNNING
    /\ api_req[1].reset = "Unset"
    /\ api_resp = ResetMandatory
    /\ api_calls = <<>>

\* C19 as claimed: the rerun of a failed task that is not a with-items task
\* is accepted when reset is left out, and the engine is called with
\* reset true.
C19_ResetDefaultsToTrue ==
    [][(/\ api_step' = "put"
        /\ NamesMatch
        /\ api_task.state = ERROR
        /\ ~api_task.with_items
        /\ api_req'[1].state = RUNNING
        /\ api_req'[1].reset = "Unset")
       => /\ api_resp' = "200"
          /\ api_calls' = Append(api_calls, [reset |-> "True", skip |-> FALSE])]_vars

\* C19 as amended: the rerun of a failed task is accepted, and passed to the
\* engine with the reset given, exactly when reset is given as true or, for
\* a with-items task, as false; left out it is refused for every kind of
\* task, and false is refused for a task that is not a with-items task.
C19_ResetMustBeStated ==
    [][(/\ api_step' = "put"
        /\ NamesMatch
        /\ api_task.state = ERROR
        /\ api_req'[1].state = RUNNING)
       => IF api_req'[1].reset = "Unset"
          THEN api_resp' = ResetMandatory /\ api_calls' = api_calls
          ELSE IF api_req'[1].reset = "False" /\ ~api_task.with_items
          THEN api_resp' = OnlyWithItems /\ api_calls' = api_calls
          ELSE /\ api_resp' = "200"
               /\ api_calls' = Append(api_calls, RerunCall(api_req'[1]))
               /\ api_task'.state = RUNNING]_vars

\* C19 witness: the rerun of a task that is not a with-items task went
\* through with reset given as true.
C19_Witness ==
    /\ api_step = "put"
    /\ ~api_task.with_items
    /\ api_task.state = RUNNING
    /\ api_req[1].state = RUNNING
    /\ api_req[1].reset = "True"
    /\ api_resp = "200"
    /\ api_calls # <<>>
    /\ api_calls[Len(api_calls)] = [reset |-> "True", skip |-> FALSE]

----------------------------------------------------------------------------
(* engine/default_engine.py: process_action_heartbeats *)

\* Bounds of the heartbeat model.
MaxHbActions == 2       \* stored action executions: ids 1..MaxHbActions
MaxBatch == 2           \* ids in one batch
MaxHbCalls == 1         \* process_action_heartbeats calls

HbActionIds == 1..MaxHbActions
MissingId == MaxHbActions + 1       \* an id no action execution has
BatchIds == HbActionIds \cup {MissingId, None}
Batches == UNION {[1..n -> BatchIds] : n \in 0..MaxBatch}

\* What goes wrong inside a call besides ids that do not exist: nothing, or
\* the UPDATE issued for the id at position pos ends in a storage error,
\* which is transient (gone when the method runs again) or fatal (raised to
\* the caller).  No UPDATE is issued for None.
Faults(ids) ==
    {[kind |-> "none", pos |-> 0]} \cup
    [kind : {"transient", "fatal"},
     pos : {i \in 1..Len(ids) : ids[i] # None}]

\* db_api.update_action_execution_heartbeat(id): DBEntityNotFoundError for
\* None and for an id without a row, else last_heartbeat = now.
heartbeat_not_found(db, id) == id = None \/ id \notin DOMAIN db

\* The for loop from position i on, inside the transaction, with the except
\* clause: [db, exc] when it leaves the loop.
RECURSIVE heartbeat_loop(_, _, _, _, _)
heartbeat_loop(db, ids, i, now, fault_pos) ==
    IF i > Len(ids) THEN [db |-> db, exc |-> ""]
    ELSE IF i = fault_pos THEN [db |-> db, exc |-> "DBError"]
    ELSE IF heartbeat_not_found(db, ids[i])
    THEN heartbeat_loop(db, ids, i + 1, now, fault_pos)
    ELSE heartbeat_loop([db EXCEPT ![ids[i]] = now], ids, i + 1, now, fault_pos)

\* The same loop without the try/except around the update.
RECURSIVE heartbeat_loop_no_except(_, _, _, _, _)
heartbeat_loop_no_except(db, ids, i, now, fault_pos) ==
    IF i > Len(ids) THEN [db |-> db, exc |-> ""]
    ELSE IF i = fault_pos THEN [db |-> db, exc |-> "DBError"]
    ELSE IF heartbeat_not_found(db, ids[i])
    THEN [db |-> db, exc |-> "DBEntityNotFoundError"]
    ELSE heartbeat_loop_no_except([db EXCEPT ![ids[i]] = now], ids, i + 1,
                                  now, fault_pos)

\* The method without the try/except: the first id that is not found ends
\* the call and its transaction is rolled back.
process_action_heartbeats_no_except(db, ids, now, fault) ==
    LET first == heartbeat_loop_no_except(db, ids, 1, now, fault.pos)
        again == heartbeat_loop_no_except(db, ids, 1, now, 0)
    IN IF first.exc = "" THEN first
       ELSE IF first.exc = "DBError" /\ fault.kind = "transient"
       THEN IF again.exc = "" THEN again ELSE [db |-> db, exc |-> again.exc]
       ELSE [db |-> db, exc |-> first.exc]

\* The method with one transaction per id: what was updated before the
\* failing id stays updated.
process_action_heartbeats_tx_per_id(db, ids, now, fault) ==
    LET first == heartbeat_loop(db, ids, 1, now, fault.pos)
    IN IF first.exc = "" THEN first
       ELSE IF fault.kind = "transient"
       THEN heartbeat_loop(db, ids, 1, now, 0)
       ELSE first

\* DefaultEngine.process_action_heartbeats: the loop runs inside one
\* transaction; an exception leaving it rolls the transaction back, and
\* retry_on_db_error runs the method again after a transient storage error.
process_action_heartbeats(db, ids, now, fault) ==
    LET first == heartbeat_loop(db, ids, 1, now, fault.pos)
    IN IF first.exc = "" THEN first
       ELSE IF fault.kind = "transient"
       THEN heartbeat_loop(db, ids, 1, now, 0)
       ELSE [db |-> db, exc |-> first.exc]

\* Action executions with or without an earlier heartbeat (at time 0 or 1).
InitHeartbeat ==
    /\ hb_db \in [HbActionIds -> {0, 1}]
    /\ hb_clock = 1
    /\ hb_call = <<>>
    /\ hb_exc = ""
    /\ OthersIdle("Heartbeat")

ProcessActionHeartbeats(ids, fault) ==
    /\ hb_clock <= MaxHbCalls
    /\ LET r == process_action_heartbeats(hb_db, ids, hb_clock + 1, fault)
       IN hb_db' = r.db /\ hb_exc' = r.exc
    /\ hb_clock' = hb_clock + 1
    /\ hb_call' = <<[ids |-> ids, fault |-> fault]>>
    /\ Frame("Heartbeat")

NextHeartbeat ==
    \E ids \in Batches : \E fault \in Faults(ids) :
        ProcessActionHeartbeats(ids, fault)

SpecHeartbeat == InitHeartbeat /\ [][NextHeartbeat]_vars

\* The ids of a batch that have an action execution.
HbExisting(ids) == {ids[i] : i \in 1..Len(ids)} \cap HbActionIds

\* C6: a call in which nothing fails but lookups of ids that do not exist
\* (missing or None, at any positions) raises nothing and refreshes
\* last_heartbeat of every existing action execution of the batch, and of no
\* other.
C6_MissingIdsAreSkipped ==
    [][(hb_clock' = hb_clock + 1 /\ hb_call'[1].fault.kind = "none") =>
          /\ hb_exc' = ""
          /\ \A a \in HbActionIds :
                hb_db'[a] = IF a \in HbExisting(hb_call'[1].ids)
                            THEN hb_clock' ELSE hb_db[a]]_vars

\* C6 witness: a batch with a missing id before an existing one was
\* processed and the existing one has the time of the call.
C6_Witness ==
    /\ hb_call # <<>>
    /\ hb_call[1].fault.kind = "none"
    /\ Len(hb_call[1].ids) = 2
    /\ hb_call[1].ids[1] \in {None, MissingId}
    /\ hb_call[1].ids[2] \in HbActionIds
    /\ hb_db[hb_call[1].ids[2]] = hb_clock
    /\ hb_exc = ""

\* The id whose update failed with a storage error, if any.
HbFailedIds(call) ==
    IF call.fault.pos = 0 THEN {} ELSE {call.ids[call.fault.pos]}

----------------------------------------------------------------------------
(* workflow/data_flow.py *)

\* The workflow of the data flow model: two entry tasks, each followed by a
\* task of its own branch, and a join of the two branches.
\*      t1 -> t3 --+
\*                 +--> t5
\*      t2 -> t4 --+
FlowTasks == {"t1", "t2", "t3", "t4", "t5"}
EntryTasks == {"t1", "t2"}
Upstream(t) ==
    CASE t = "t3" -> <<"t1">>
      [] t = "t4" -> <<"t2">>
      [] t = "t5" -> <<"t3", "t4">>
      [] OTHER -> <<>>
UpstreamSet(t) == {Upstream(t)[i] : i \in 1..Len(Upstream(t))}
Ancestors(t) ==
    UpstreamSet(t) \cup UNION {UpstreamSet(u) : u \in UpstreamSet(t)}

\* Variable names, and the value task t publishes under a name: the value
\* tells who published it and how.
Keys == {"x", "y"}
Val(t, kind) == [by |-> t, kind |-> kind]

\* Publish clauses: the names published to the branch and the names
\* published globally.
PublishSpecs == [branch : SUBSET Keys, global : SUBSET Keys]
get_branch(t, publish_spec) == [k \in publish_spec.branch |-> Val(t, "branch")]
get_global(t, publish_spec) == [k \in publish_spec.global |-> Val(t, "global")]

\* wf_ex.input, wf_ex.params['env'] and the initial wf_ex.context.
WfInput == [x |-> Val("wf", "input")]
WfEnv == [k1 |-> Val("wf", "env")]
InitialContext == [__execution |-> Val("wf", "execution")]

\* A value that is itself a dict, and the test isinstance(v, dict); every
\* other value is a record without the field nested.
Nested(d) == [nested |-> d]
is_dict(v) == "nested" \in DOMAIN v

\* utils.merge_dicts(left, right): the values of right are merged into left,
\* recursively where both hold a dict under the key, and overwrite it
\* otherwise.
RECURSIVE merge_dicts(_, _)
merge_dicts(left, right) ==
    [k \in DOMAIN left \cup DOMAIN right |->
        IF k \notin DOMAIN right THEN left[k]
        ELSE IF k \notin DOMAIN left THEN right[k]
        ELSE IF is_dict(left[k]) /\ is_dict(right[k])
        THEN Nested(merge_dicts(left[k].nested, right[k].nested))
        ELSE right[k]]

\* utils.update_dict(left, right): left.update(right).
update_dict(left, right) ==
    [k \in DOMAIN left \cup DOMAIN right |->
        IF k \in DOMAIN right THEN right[k] ELSE left[k]]

\* The merge loop run over the dicts in the order given.
RECURSIVE merge_in_order(_)
merge_in_order(dicts) ==
    IF dicts = <<>> THEN <<>>
    ELSE merge_dicts(merge_in_order(SubSeq(dicts, 1, Len(dicts) - 1)),
                     dicts[Len(dicts)])

\* for d in reversed(dicts): res = merge_dicts(res, d)
RECURSIVE merge_reversed(_)
merge_reversed(dicts) ==
    IF dicts = <<>> THEN <<>>
    ELSE merge_dicts(merge_reversed(Tail(dicts)), Head(dicts))

\* [d for d in dicts if d is not None]; an argument is <<>> for None and
\* <<d>> for the dict d.
not_none(dicts) ==
    LET given == SelectSeq(dicts, LAMBDA d : d # <<>>)
    IN [i \in 1..Len(given) |-> given[i][1]]

\* ContextView(*dicts): self.dicts (utils.merge_dicts returns its left
\* argument when the right one is None).
ContextView(dicts, merge_strategy) ==
    IF merge_strategy = "merge"
    THEN <<merge_reversed(not_none(dicts))>>
    ELSE not_none(dicts)

\* The lookup loop run over the layers from the last to the first.
RECURSIVE getitem_loop_from_last(_, _)
getitem_loop_from_last(dicts, key) ==
    IF dicts = <<>> THEN <<>>
    ELSE IF key \in DOMAIN dicts[Len(dicts)] THEN <<dicts[Len(dicts)][key]>>
    ELSE getitem_loop_from_last(SubSeq(dicts, 1, Len(dicts) - 1), key)

\* for d in self.dicts: if key in d: return d[key] -- <<the value>>, or <<>>
\* when the loop ends without a return.
RECURSIVE getitem_loop(_, _)
getitem_loop(dicts, key) ==
    IF dicts = <<>> THEN <<>>
    ELSE IF key \in DOMAIN Head(dicts) THEN <<Head(dicts)[key]>>
    ELSE getitem_loop(Tail(dicts), key)

\* ContextView.__getitem__(key): the value, or KeyError.
ContextView_getitem(view, key) ==
    LET found == getitem_loop(view, key)
    IN IF found = <<>> THEN [exc |-> "KeyError", value |-> <<>>]
       ELSE [exc |-> "", value |-> found]

\* ContextView.get(key, default): <<the value>>, or default (<<>> for None).
ContextView_get(view, key, default) ==
    LET found == getitem_loop(view, key)
    IN IF found = <<>> THEN default ELSE found

\* ContextView.__contains__(key).
ContextView_contains(view, key) ==
    \E i \in 1..Len(view) : key \in DOMAIN view[i]

\* ContextView.keys and ContextView.__getitem__ for a key of the view.
view_keys(view) == UNION {DOMAIN view[i] : i \in 1..Len(view)}
view_get(view, key) == getitem_loop(view, key)[1]

\* ContextView.items as a dict: what an expression can read.
view_items(view) == [k \in view_keys(view) |-> view_get(view, k)]

get_current_task_dict(t) ==
    [__task_execution |-> Nested([id |-> Val(t, "id"), name |-> Val(t, "name")])]

\* wf_ex.root_execution: the execution wf_ex.root_execution_id names, <<>>
\* when there is none.
root_execution(db, wf_ex) ==
    IF wf_ex.root_execution_id \in DOMAIN db
    THEN <<db[wf_ex.root_execution_id]>>
    ELSE <<>>

\* wf_ex.params['env'] if 'env' in wf_ex.params else {}
env_of_params(params) ==
    IF "env" \in DOMAIN params THEN params["env"] ELSE <<>>

\* get_workflow_environment_dict reading the params of the execution itself.
get_workflow_environment_dict_own_params(db, wf_ex) ==
    IF wf_ex = <<>> THEN <<>>
    ELSE [__env |-> Nested(env_of_params(wf_ex[1].params))]

\* get_workflow_environment_dict(wf_ex); wf_ex is <<>> for None and
\* <<execution>> otherwise.
RECURSIVE get_workflow_environment_dict(_, _)
get_workflow_environment_dict(db, wf_ex) ==
    IF wf_ex = <<>> THEN <<>>
    ELSE IF wf_ex[1].root_execution_id # None
    THEN get_workflow_environment_dict(db, root_execution(db, wf_ex[1]))
    ELSE [__env |-> Nested(env_of_params(wf_ex[1].params))]

\* The workflow execution of the tasks of the flow: a root execution.
FlowWfEx == [root_execution_id |-> None, params |-> [env |-> WfEnv]]

\* The view with the workflow context ahead of the inbound context of the
\* task.
expr_ctx_view_context_first(t, in_context, wf_ex, merge_strategy) ==
    ContextView(
        <<<<get_current_task_dict(t)>>, <<wf_ex.context>>,
          <<get_workflow_environment_dict(<<>>, <<wf_ex>>)>>, <<in_context>>,
          <<wf_ex.input>>>>,
        merge_strategy)

\* expr_ctx = ContextView(get_current_task_dict(task_ex), task_ex.in_context,
\* get_workflow_environment_dict(wf_ex), wf_ex.context, wf_ex.input)
expr_ctx_view(t, in_context, wf_ex, merge_strategy) ==
    ContextView(
        <<<<get_current_task_dict(t)>>, <<in_context>>,
          <<get_workflow_environment_dict(<<>>, <<wf_ex>>)>>, <<wf_ex.context>>,
          <<wf_ex.input>>>>,
        merge_strategy)

\* The view publish_variables evaluates the publish expressions against.
publish_expr_ctx(t, task_ex, context, merge_strategy) ==
    expr_ctx_view(
        t, task_ex.in_context,
        [root_execution_id |-> FlowWfEx.root_execution_id,
         params |-> FlowWfEx.params, context |-> context, input |-> WfInput],
        merge_strategy)

\* publish_variables with the global variables left out of the workflow
\* context.
publish_variables_global_dropped(t, task_ex, publish_spec, context, merge_strategy) ==
    IF task_ex.state \notin {SUCCESS, ERROR, SKIPPED}
    THEN [published |-> task_ex.published, context |-> context,
          expr_ctx |-> <<>>]
    ELSE [published |-> get_branch(t, publish_spec), context |-> context,
          expr_ctx |-> view_items(
              publish_expr_ctx(t, task_ex, context, merge_strategy))]

\* publish_variables with the branch variables merged into the workflow
\* context as well.
publish_variables_branch_shared(t, task_ex, publish_spec, context, merge_strategy) ==
    IF task_ex.state \notin {SUCCESS, ERROR, SKIPPED}
    THEN [published |-> task_ex.published, context |-> context,
          expr_ctx |-> <<>>]
    ELSE [published |-> get_branch(t, publish_spec),
          context |-> merge_dicts(
              merge_dicts(context, get_branch(t, publish_spec)),
              get_global(t, publish_spec)),
          expr_ctx |-> view_items(
              publish_expr_ctx(t, task_ex, context, merge_strategy))]

\* publish_variables without the test of the task state.
publish_variables_any_state(t, task_ex, publish_spec, context, merge_strategy) ==
    LET expr_ctx == publish_expr_ctx(t, task_ex, context, merge_strategy)
    IN IF publish_spec.branch = {} /\ publish_spec.global = {}
       THEN [published |-> task_ex.published, context |-> context,
             expr_ctx |-> view_items(expr_ctx)]
       ELSE [published |-> get_branch(t, publish_spec),
             context |-> merge_dicts(context, get_global(t, publish_spec)),
             expr_ctx |-> view_items(expr_ctx)]

\* publish_variables(task_ex, task_spec): the new task_ex.published, the new
\* wf_ex.context and, in expr_ctx, what the expressions could read (<<>> when
\* the view is not built).  The published expressions are literals.
publish_variables(t, task_ex, publish_spec, context, merge_strategy) ==
    IF task_ex.state \notin {SUCCESS, ERROR, SKIPPED}
    THEN [published |-> task_ex.published, context |-> context,
          expr_ctx |-> <<>>]
    ELSE LET expr_ctx ==
                publish_expr_ctx(t, task_ex, context, merge_strategy)
         IN IF publish_spec.branch = {} /\ publish_spec.global = {}
            THEN [published |-> task_ex.published, context |-> context,
                  expr_ctx |-> view_items(expr_ctx)]
            ELSE [published |-> get_branch(t, publish_spec),
                  context |-> merge_dicts(context, get_global(t, publish_spec)),
                  expr_ctx |-> view_items(expr_ctx)]

\* evaluate_task_outbound_context with the inbound context laid over the
\* published variables.
evaluate_task_outbound_context_inbound_over(task_ex, merge_strategy) ==
    IF merge_strategy = "merge"
    THEN merge_dicts(task_ex.published, task_ex.in_context)
    ELSE update_dict(task_ex.published, task_ex.in_context)

\* evaluate_task_outbound_context(task_ex).
evaluate_task_outbound_context(task_ex, merge_strategy) ==
    IF merge_strategy = "merge"
    THEN merge_dicts(task_ex.in_context, task_ex.published)
    ELSE update_dict(task_ex.in_context, task_ex.published)

\* The loop of evaluate_upstream_context with ctx assigned, not merged into.
RECURSIVE upstream_loop_ctx_assigned(_, _, _, _, _, _)
upstream_loop_ctx_assigned(tasks, names, i, published_vars, ctx, merge_strategy) ==
    IF i > Len(names) THEN [published_vars |-> published_vars, ctx |-> ctx]
    ELSE upstream_loop_ctx_assigned(
            tasks, names, i + 1,
            merge_dicts(published_vars, tasks[names[i]].published),
            evaluate_task_outbound_context(tasks[names[i]], merge_strategy),
            merge_strategy)

\* The loop of evaluate_upstream_context (context versioning disabled) from
\* position i on: [published_vars, ctx] after the last task.
RECURSIVE upstream_loop(_, _, _, _, _, _)
upstream_loop(tasks, names, i, published_vars, ctx, merge_strategy) ==
    IF i > Len(names) THEN [published_vars |-> published_vars, ctx |-> ctx]
    ELSE upstream_loop(
            tasks, names, i + 1,
            merge_dicts(published_vars, tasks[names[i]].published),
            merge_dicts(ctx, evaluate_task_outbound_context(tasks[names[i]],
                                                            merge_strategy)),
            merge_strategy)

\* evaluate_upstream_context without the last merge of the published
\* variables.
evaluate_upstream_context_ctx_only(tasks, names, merge_strategy) ==
    upstream_loop(tasks, names, 1, <<>>, <<>>, merge_strategy).ctx

\* evaluate_upstream_context returning the published variables alone.
evaluate_upstream_context_published_only(tasks, names, merge_strategy) ==
    upstream_loop(tasks, names, 1, <<>>, <<>>, merge_strategy).published_vars

\* evaluate_upstream_context(upstream_task_execs).
evaluate_upstream_context(tasks, names, merge_strategy) ==
    LET r == upstream_loop(tasks, names, 1, <<>>, <<>>, merge_strategy)
    IN merge_dicts(r.ctx, r.published_vars)

\* A new task execution.
NewTask(in_context) ==
    [state |-> RUNNING, in_context |-> in_context, published |-> <<>>,
     expr_ctx |-> <<>>]

\* The tasks to create once the tasks of done are completed: those not yet
\* created all of whose upstream tasks have completed without being
\* cancelled.
Triggered(tasks) ==
    {t \in FlowTasks \ DOMAIN tasks :
        /\ Upstream(t) # <<>>
        /\ \A u \in UpstreamSet(t) :
              u \in DOMAIN tasks /\ tasks[u].state \in {SUCCESS, ERROR, SKIPPED}}

InitFlow ==
    /\ fl_publish \in
          [FlowTasks -> PublishSpecs] \cap
          {f \in [FlowTasks -> PublishSpecs] :
              \A t \in FlowTasks \ EntryTasks :
                  f[t] = [branch |-> {}, global |-> {}]}
    /\ fl_strategy \in {"replace", "merge"}
    /\ fl_tasks = [t \in EntryTasks |-> NewTask(<<>>)]
    /\ fl_context = InitialContext
    /\ fl_done = <<>>
    /\ OthersIdle("Flow")

\* Task t completes in state: the task takes the state, its variables are
\* published and the tasks it enables are created with their inbound
\* context, in one transaction.
CompleteTask(t, state) ==
    /\ t \in DOMAIN fl_tasks
    /\ fl_tasks[t].state = RUNNING
    /\ LET task_ex == [fl_tasks[t] EXCEPT !.state = state]
           p == publish_variables(t, task_ex, fl_publish[t], fl_context,
                                  fl_strategy)
           tasks == [fl_tasks EXCEPT ![t] =
                        [task_ex EXCEPT !.published = p.published,
                                        !.expr_ctx = p.expr_ctx]]
           new == Triggered(tasks)
       IN /\ fl_tasks' =
                [u \in DOMAIN tasks \cup new |->
                    IF u \in new
                    THEN NewTask(evaluate_upstream_context(
                                    tasks, Upstream(u), fl_strategy))
                    ELSE tasks[u]]
          /\ fl_context' = p.context
    /\ fl_done' = Append(fl_done, t)
    /\ UNCHANGED <<fl_publish, fl_strategy>>
    /\ Frame("Flow")

NextFlow ==
    \E t \in FlowTasks, state \in {SUCCESS, ERROR, CANCELLED} :
        CompleteTask(t, state)

SpecFlow == InitFlow /\ [][NextFlow]_vars

\* The tasks whose variables were published: completed in SUCCESS, ERROR or
\* SKIPPED.
Published(t) == fl_tasks[t].state \in {SUCCESS, ERROR, SKIPPED}

C10_BranchStaysOnBranch ==
    /\ \A t \in DOMAIN fl_tasks :
          /\ \A u \in UpstreamSet(t) :
                DOMAIN fl_tasks[u].published \subseteq
                    DOMAIN fl_tasks[t].in_context
          /\ \A k \in DOMAIN fl_tasks[t].published :
                fl_tasks[t].published[k] = Val(t, "branch")
          /\ \A k \in DOMAIN fl_tasks[t].in_context :
                fl_tasks[t].in_context[k].kind = "branch" =>
                    fl_tasks[t].in_context[k].by \in Ancestors(t)
    /\ \A k \in DOMAIN fl_context : fl_context[k].kind # "branch"

\* C10 witness: t1 published x to its branch, its successor t3 has it in its
\* inbound context and t4, on the other branch, was created without it.
C10_Witness ==
    /\ {"t3", "t4"} \subseteq DOMAIN fl_tasks
    /\ "x" \in DOMAIN fl_tasks["t1"].published
    /\ "x" \in DOMAIN fl_tasks["t3"].in_context
    /\ fl_tasks["t3"].in_context["x"] = Val("t1", "branch")
    /\ "x" \notin DOMAIN fl_tasks["t4"].in_context
    /\ "x" \notin DOMAIN fl_context
----------------------------------------------------------------------------
(* workflow/data_flow.py: get_task_execution_result *)

\* Bound of the task result model.
MaxItems == 3           \* items of the with-items task: indexes 0..MaxItems-1

ItemIndexes == 0..(MaxItems - 1)

\* The result of the action run for the item of index i.
item_result(i) == 100 + i

\* An action execution of the task: runtime_context['index'], accepted, and
\* output, <<>> for an empty output or <<result>> for {'result': result}.
ActionExecs ==
    [index : ItemIndexes, accepted : BOOLEAN, output : {<<>>}]
    \cup {[index |-> i, accepted |-> a, output |-> <<item_result(i)>>] :
            i \in ItemIndexes, a \in BOOLEAN}

\* task_ex.executions in the order they are stored: at most one execution
\* per item is accepted, the others are attempts that were given up.
ExecLists ==
    {execs \in UNION {[1..n -> ActionExecs] : n \in 1..MaxItems} :
        \A i, j \in 1..Len(execs) :
            (i # j /\ execs[i].accepted /\ execs[j].accepted)
                => execs[i].index # execs[j].index}

\* _extract_execution_result(ex) of an action execution.
extract_execution_result(ex) ==
    IF ex.output # <<>> THEN ex.output[1] ELSE None

\* list.sort(key=...): stable, an element goes after those with a key not
\* greater than its own.
RECURSIVE sort_by_index(_)
sort_by_index(execs) ==
    IF execs = <<>> THEN <<>>
    ELSE LET init == sort_by_index(SubSeq(execs, 1, Len(execs) - 1))
             last == execs[Len(execs)]
             before == SelectSeq(init, LAMBDA e : e.index <= last.index)
             after == SelectSeq(init, LAMBDA e : e.index > last.index)
         IN before \o <<last>> \o after

\* results = [_extract_execution_result(ex) for ex in execs if ex.accepted]
RECURSIVE accepted_results(_)
accepted_results(execs) ==
    IF execs = <<>> THEN <<>>
    ELSE IF Head(execs).accepted
         THEN <<extract_execution_result(Head(execs))>>
              \o accepted_results(Tail(execs))
         ELSE accepted_results(Tail(execs))

\* get_task_execution_result without the sort.
get_task_execution_result_unsorted(task_ex) ==
    LET results == accepted_results(task_ex.executions)
    IN [executions |-> task_ex.executions,
        is_list |-> task_ex.with_items \/ Len(results) # 1,
        value |-> results]

\* get_task_execution_result(task_ex): task_ex.executions as the in-place
\* sort leaves it, and the value returned, a list (is_list) or the single
\* element of value.
get_task_execution_result(task_ex) ==
    LET execs == sort_by_index(task_ex.executions)
        results == accepted_results(execs)
    IN [executions |-> execs,
        is_list |-> task_ex.with_items \/ Len(results) # 1,
        value |-> results]

InitResult ==
    /\ rs_task \in [with_items : BOOLEAN, executions : ExecLists]
    /\ rs_stored = rs_task.executions
    /\ rs_result = <<>>
    /\ OthersIdle("Result")

GetTaskExecutionResult ==
    /\ rs_result = <<>>
    /\ LET res == get_task_execution_result(rs_task)
       IN /\ rs_task' = [rs_task EXCEPT !.executions = res.executions]
          /\ rs_result' = <<[is_list |-> res.is_list, value |-> res.value]>>
    /\ UNCHANGED rs_stored
    /\ Frame("Result")

NextResult == GetTaskExecutionResult

SpecResult == InitResult /\ [][NextResult]_vars

\* The indexes of the accepted executions, and the k-th smallest of them.
AcceptedIndexes(execs) ==
    {execs[i].index : i \in {j \in 1..Len(execs) : execs[j].accepted}}
KthIndex(S, k) == CHOOSE i \in S : Cardinality({j \in S : j < i}) = k - 1
AcceptedAt(execs, idx) ==
    execs[CHOOSE i \in 1..Len(execs) :
              execs[i].accepted /\ execs[i].index = idx]

\* C11: for a with-items task the value returned is a list with one entry
\* per accepted execution, the k-th entry being the result of the accepted
\* execution with the k-th smallest item index, in whatever order the
\* executions are stored.
C11_ResultsOrderedByIndex ==
    (rs_result # <<>> /\ rs_task.with_items) =>
        LET S == AcceptedIndexes(rs_stored)
            res == rs_result[1]
        IN /\ res.is_list
           /\ Len(res.value) = Cardinality(S)
           /\ \A k \in 1..Len(res.value) :
                 res.value[k] = extract_execution_result(
                     AcceptedAt(rs_stored, KthIndex(S, k)))

\* C11 witness: three items, all accepted, the execution of the second item
\* stored before that of the first, gave the results in the order of the
\* items.
C11_Witness ==
    /\ rs_result # <<>>
    /\ rs_task.with_items
    /\ Len(rs_stored) = 3
    /\ rs_stored[1].index = 1
    /\ rs_stored[2].index = 0
    /\ rs_result[1].value = <<item_result(0), item_result(1), item_result(2)>>
----------------------------------------------------------------------------
(* engine/default_engine.py: on_action_update *)

\* Bounds of the on_action_update model.
MaxUpActions == 2       \* running tasks, each with one action execution
MaxUpdates == 3         \* on_action_update calls

\* Action execution a belongs to task a.
UpActionIds == 1..MaxUpActions

\* The states an update may ask for.
UpdateStates == {PAUSED, RUNNING, SUCCESS}

\* The state of the workflow given those of its tasks.
up_wf_state(tasks) ==
    IF \E t \in DOMAIN tasks : tasks[t] = PAUSED THEN PAUSED ELSE RUNNING

\* action_handler.on_action_update without the check of the kind of action.
action_handler_on_action_update_unchecked(db, action_ex_id, state) ==
    LET action_ex == db.actions[action_ex_id]
    IN IF is_valid_transition(action_ex.state, state) # "True"
       THEN [exc |-> "InvalidStateTransitionException", db |-> db]
       ELSE LET tasks == [db.tasks EXCEPT ![action_ex_id] = state]
            IN [exc |-> "",
                db |-> [db EXCEPT !.actions[action_ex_id].state = state,
                                  !.tasks = tasks,
                                  !.wf = up_wf_state(tasks)]]

\* action_handler.on_action_update(action_ex, state): pausing the action of
\* a synchronous task and an invalid transition are refused; otherwise the
\* action takes the state, and its task and the workflow follow.
action_handler_on_action_update(db, action_ex_id, state) ==
    LET action_ex == db.actions[action_ex_id]
    IN IF state = PAUSED /\ action_ex.is_sync
       THEN [exc |-> "InvalidStateTransitionException", db |-> db]
       ELSE IF is_valid_transition(action_ex.state, state) # "True"
       THEN [exc |-> "InvalidStateTransitionException", db |-> db]
       ELSE LET tasks == [db.tasks EXCEPT ![action_ex_id] = state]
            IN [exc |-> "",
                db |-> [db EXCEPT !.actions[action_ex_id].state = state,
                                  !.tasks = tasks,
                                  !.wf = up_wf_state(tasks)]]

\* DefaultEngine.on_action_update(action_ex_id, state): an exception of the
\* handler leaves the transaction, which rolls back.
on_action_update(db, action_ex_id, state) ==
    LET r == action_handler_on_action_update(db, action_ex_id, state)
    IN IF r.exc # ""
       THEN [db |-> db, ret |-> <<>>, exc |-> r.exc]
       ELSE [db |-> r.db, ret |-> <<r.db.actions[action_ex_id]>>, exc |-> ""]

InitUpdate ==
    /\ \E sync \in [UpActionIds -> BOOLEAN] :
          up_db = [wf |-> RUNNING,
                   tasks |-> [a \in UpActionIds |-> RUNNING],
                   actions |-> [a \in UpActionIds |->
                                   [state |-> RUNNING, is_sync |-> sync[a]]]]
    /\ up_call = <<>>
    /\ up_ret = <<>>
    /\ up_exc = ""
    /\ up_n = 0
    /\ OthersIdle("Update")

OnActionUpdate(action_ex_id, state) ==
    /\ up_n < MaxUpdates
    /\ LET r == on_action_update(up_db, action_ex_id, state)
       IN /\ up_db' = r.db
          /\ up_ret' = r.ret
          /\ up_exc' = r.exc
    /\ up_call' = <<[action_ex_id |-> action_ex_id, state |-> state]>>
    /\ up_n' = up_n + 1
    /\ Frame("Update")

NextUpdate ==
    \E action_ex_id \in UpActionIds, state \in UpdateStates :
        OnActionUpdate(action_ex_id, state)

SpecUpdate == InitUpdate /\ [][NextUpdate]_vars

\* C13: on_action_update(id, PAUSED) for a RUNNING action execution of a
\* synchronous task raises InvalidStateTransitionException, returns nothing
\* and leaves the states of the action, of its task and of the workflow as
\* they were.
C13_PauseOfSyncActionRefused ==
    [][\A a \in UpActionIds :
          (/\ up_n' = up_n + 1
           /\ up_call' = <<[action_ex_id |-> a, state |-> PAUSED]>>
           /\ up_db.actions[a].state = RUNNING
           /\ up_db.actions[a].is_sync)
          => /\ up_exc' = "InvalidStateTransitionException"
             /\ up_ret' = <<>>
             /\ up_db' = up_db]_vars

\* C13 witness: the pause of the running action of a synchronous task was
\* refused while the workflow was running.
C13_Witness ==
    /\ up_call # <<>>
    /\ up_call[1].state = PAUSED
    /\ up_db.actions[up_call[1].action_ex_id].is_sync
    /\ up_db.actions[up_call[1].action_ex_id].state = RUNNING
    /\ up_db.wf = RUNNING
    /\ up_exc = "InvalidStateTransitionException"
----------------------------------------------------------------------------
(* services/workflows.py: update_workflow_execution_env *)

\* Bound of the env update model.
MaxEnvUpdates == 2      \* update_workflow_execution_env calls

\* The env dicts a caller passes: every dict over these keys and values, the
\* empty one included.
EnvKeys == {"k1", "k2"}
EnvValues == {Val("foobar", "env"), Val("baz", "env")}
EnvDicts == UNION {[K -> EnvValues] : K \in SUBSET EnvKeys}

\* update_workflow_execution_env without the check of the state.
update_workflow_execution_env_any_state(wf_ex, env) ==
    IF env = <<>>
    THEN [wf_ex |-> wf_ex, exc |-> ""]
    ELSE IF "params_env" \notin DOMAIN wf_ex
    THEN [wf_ex |-> wf_ex, exc |-> "KeyError"]
    ELSE [wf_ex |-> [wf_ex EXCEPT
                        !.params_env = merge_dicts(wf_ex.params_env, env)],
          exc |-> ""]

\* update_workflow_execution_env(wf_ex, env): the execution afterwards and
\* the exception raised. The record has the field params_env when params
\* has the key 'env'; reading params['env'] without it raises KeyError.
update_workflow_execution_env(wf_ex, env) ==
    IF env = <<>>
    THEN [wf_ex |-> wf_ex, exc |-> ""]
    ELSE IF wf_ex.state \notin {IDLE, PAUSED, ERROR}
    THEN [wf_ex |-> wf_ex, exc |-> "NotAllowedException"]
    ELSE IF "params_env" \notin DOMAIN wf_ex
    THEN [wf_ex |-> wf_ex, exc |-> "KeyError"]
    ELSE [wf_ex |-> [wf_ex EXCEPT
                        !.params_env = merge_dicts(wf_ex.params_env, env)],
          exc |-> ""]

InitEnv ==
    /\ \E state \in ALL :
          env_wf = [state |-> state,
                    params_env |-> [k1 |-> Val("abc", "env")],
                    context_env |-> [k1 |-> Val("fee fi fo fum", "env")]]
    /\ env_call = <<>>
    /\ env_exc = ""
    /\ env_n = 0
    /\ OthersIdle("Env")

UpdateWorkflowExecutionEnv(env) ==
    /\ env_n < MaxEnvUpdates
    /\ LET res == update_workflow_execution_env(env_wf, env)
       IN /\ env_wf' = res.wf_ex
          /\ env_exc' = res.exc
    /\ env_call' = <<env>>
    /\ env_n' = env_n + 1
    /\ Frame("Env")

NextEnv == \E env \in EnvDicts : UpdateWorkflowExecutionEnv(env)

SpecEnv == InitEnv /\ [][NextEnv]_vars

\* C14: a call that supplies an env updates params.env exactly when the
\* execution is IDLE, PAUSED or ERROR; in each of the other six states it
\* raises NotAllowedException and leaves params.env and the context as they
\* were.
C14_EnvUpdateOnlyWhenNotRunning ==
    [][(env_n' = env_n + 1 /\ env_call'[1] # <<>>) =>
          IF env_wf.state \in {IDLE, PAUSED, ERROR}
          THEN /\ env_exc' = ""
               /\ \A k \in DOMAIN env_call'[1] :
                     env_wf'.params_env[k] = env_call'[1][k]
               /\ env_wf'.context_env = env_wf.context_env
          ELSE /\ env_wf.state \in {RUNNING, RUNNING_DELAYED, WAITING,
                                    SUCCESS, CANCELLED, SKIPPED}
               /\ env_exc' = "NotAllowedException"
               /\ env_wf' = env_wf]_vars

\* C14 witness: an env was refused for a running execution whose env is
\* still the original one.
C14_Witness ==
    /\ env_call # <<>>
    /\ env_call[1] # <<>>
    /\ env_wf.state = RUNNING
    /\ env_exc = "NotAllowedException"
    /\ env_wf.params_env = [k1 |-> Val("abc", "env")]

\* Executions started with and without an env: params has the key 'env' only
\* when one was given (data_flow.py reads it as {} when the key is absent).
InitEnvAnyParams ==
    /\ \E state \in ALL :
          \/ env_wf = [state |-> state,
                       params_env |-> [k1 |-> Val("abc", "env")],
                       context_env |-> [k1 |-> Val("fee fi fo fum", "env")]]
          \/ env_wf = [state |-> state,
                       context_env |-> <<>>]
    /\ env_call = <<>>
    /\ env_exc = ""
    /\ env_n = 0
    /\ OthersIdle("Env")

SpecEnvAnyParams == InitEnvAnyParams /\ [][NextEnv]_vars

\* params.env as the claim reads it: empty when params has no 'env'.
previous_env(wf_ex) ==
    IF "params_env" \in DOMAIN wf_ex THEN wf_ex.params_env ELSE <<>>

\* C39 as claimed: a permitted call with a non-empty env raises nothing and
\* leaves params.env equal to the previous params.env, empty when the
\* execution was started without one, with the keys of env set to the new
\* values and every other key as it was.
C39_EnvOverlaidOnPrevious ==
    [][(/\ env_n' = env_n + 1
        /\ env_call'[1] # <<>>
        /\ env_wf.state \in {IDLE, PAUSED, ERROR}) =>
          /\ env_exc' = ""
          /\ "params_env" \in DOMAIN env_wf'
          /\ env_wf'.params_env = update_dict(previous_env(env_wf),
                                             env_call'[1])]_vars
----------------------------------------------------------------------------
(* workflow/data_flow.py: ContextView lookups *)

\* Bound of the context view model.
MaxLayers == 3          \* arguments of ContextView(*dicts)

\* The keys looked up: those of the layers and one no layer has.
LookupKeys == Keys \cup {"z"}

\* The i-th argument: None (<<>>) or a dict over some of the keys whose
\* values tell the layer they come from.
LayerArgs(i) == {<<>>} \cup {<<[k \in K |-> Val(i, "layer")]>> : K \in SUBSET Keys}
LayerLists ==
    UNION {{dicts \in [1..n -> UNION {LayerArgs(i) : i \in 1..n}] :
                \A i \in 1..n : dicts[i] \in LayerArgs(i)} : n \in 0..MaxLayers}

\* The defaults passed to get: None, or a value of the caller.
Defaults == {<<>>, <<Val(0, "default")>>}

InitView ==
    /\ vw_dicts \in LayerLists
    /\ vw_strategy \in {"replace", "merge"}
    /\ vw_key \in LookupKeys
    /\ vw_default \in Defaults
    /\ vw_res = <<>>
    /\ OthersIdle("View")

\* view = ContextView(*dicts); view[key]; view.get(key, default)
Lookup ==
    /\ vw_res = <<>>
    /\ LET view == ContextView(vw_dicts, vw_strategy)
       IN vw_res' = <<[getitem |-> ContextView_getitem(view, vw_key),
                       get |-> ContextView_get(view, vw_key, vw_default)]>>
    /\ UNCHANGED <<vw_dicts, vw_strategy, vw_key, vw_default>>
    /\ Frame("View")

NextView == Lookup

SpecView == InitView /\ [][NextView]_vars

\* The positions of the arguments that are dicts holding the key.
LayersWith(dicts, key) ==
    {i \in 1..Len(dicts) : dicts[i] # <<>> /\ key \in DOMAIN dicts[i][1]}
LowestLayerWith(dicts, key) ==
    CHOOSE i \in LayersWith(dicts, key) :
        \A j \in LayersWith(dicts, key) : i <= j

\* C20: when the layers are not merged, view[k] and view.get(k, d) give the
\* value of k in the first argument that is a dict holding k, None arguments
\* being passed over; when no argument holds k, view[k] raises KeyError and
\* view.get(k, d) gives d.
C20_FirstLayerWins ==
    (vw_res # <<>> /\ vw_strategy = "replace") =>
        IF LayersWith(vw_dicts, vw_key) # {}
        THEN LET v == vw_dicts[LowestLayerWith(vw_dicts, vw_key)][1][vw_key]
             IN /\ vw_res[1].getitem = [exc |-> "", value |-> <<v>>]
                /\ vw_res[1].get = <<v>>
        ELSE /\ vw_res[1].getitem = [exc |-> "KeyError", value |-> <<>>]
             /\ vw_res[1].get = vw_default

\* C20 witness: the first argument is None, the second and the third both
\* hold x, and the lookup gave the value of the second.
C20_Witness ==
    /\ vw_res # <<>>
    /\ vw_strategy = "replace"
    /\ Len(vw_dicts) = 3
    /\ vw_dicts[1] = <<>>
    /\ LayersWith(vw_dicts, "x") = {2, 3}
    /\ vw_key = "x"
    /\ vw_res[1].getitem.value = <<Val(2, "layer")>>
    /\ vw_res[1].get = <<Val(2, "layer")>>
----------------------------------------------------------------------------
(* workflow/data_flow.py: ContextView under the two merge strategies *)

\* Bound of the strategy comparison.
MaxCmpLayers == 2       \* arguments of ContextView(*dicts)

\* A value of layer i: a plain value or a dict with one entry.
SubKeys == {"a", "b"}
CmpValues(i) ==
    {Val(i, "layer")} \cup {Nested([s \in {sk} |-> Val(i, "leaf")]) : sk \in SubKeys}
CmpLayerArgs(i) ==
    {<<>>} \cup {<<d>> : d \in UNION {[K -> CmpValues(i)] : K \in SUBSET Keys}}
CmpLayerLists ==
    UNION {{dicts \in [1..n -> UNION {CmpLayerArgs(i) : i \in 1..n}] :
                \A i \in 1..n : dicts[i] \in CmpLayerArgs(i)} :
           n \in 0..MaxCmpLayers}

\* What a consumer sees of a view for a key.
Probe(view, key) ==
    [getitem |-> ContextView_getitem(view, key),
     contains |-> ContextView_contains(view, key),
     keys |-> view_keys(view)]

InitStrategies ==
    /\ cv_dicts \in CmpLayerLists
    /\ cv_key \in LookupKeys
    /\ cv_res = <<>>
    /\ OthersIdle("Strategies")

\* The same arguments given to ContextView under each merge_strategy.
Compare ==
    /\ cv_res = <<>>
    /\ cv_res' = <<[replace |-> Probe(ContextView(cv_dicts, "replace"), cv_key),
                    merge |-> Probe(ContextView(cv_dicts, "merge"), cv_key)]>>
    /\ UNCHANGED <<cv_dicts, cv_key>>
    /\ Frame("Strategies")

NextStrategies == Compare

SpecStrategies == InitStrategies /\ [][NextStrategies]_vars

\* The values the key has in the arguments that hold it, first argument
\* first.
ValuesOf(dicts, key) ==
    LET holding == SelectSeq(dicts, LAMBDA d : d # <<>> /\ key \in DOMAIN d[1])
    IN [i \in 1..Len(holding) |-> holding[i][1][key]]

----------------------------------------------------------------------------
(* workflow/data_flow.py: evaluate_task_outbound_context and
   evaluate_upstream_context over any finished predecessors *)

\* Bound of the upstream evaluation.
MaxPredecessors == 2    \* length of upstream_task_execs

\* Values of variables: plain ones and dicts.
Plain(n) == Val(n, "value")
InboundValues == {Plain(1), Nested([a |-> Plain(1), b |-> Plain(1)])}
PublishedValues == {Plain(1), Plain(2), Nested([b |-> Plain(2)])}

\* task_ex.in_context and task_ex.published of a finished task.
InContexts == {<<>>} \cup {[k \in {"x"} |-> v] : v \in InboundValues}
PublishedDicts ==
    UNION {{d \in [K -> PublishedValues \cup {Plain(1)}] :
                "y" \in K => d["y"] = Plain(1)} :
           K \in SUBSET Keys}
UpstreamTaskExecs == [in_context : InContexts, published : PublishedDicts]

\* The orders in which n task executions can be passed.
Orders(n) == {p \in [1..n -> 1..n] : \A i, j \in 1..n : p[i] = p[j] => i = j}

InitUpstream ==
    /\ uc_task_execs \in
          UNION {[1..n -> UpstreamTaskExecs] : n \in 1..MaxPredecessors}
    /\ uc_last \in 1..Len(uc_task_execs)
    /\ uc_strategy \in {"replace", "merge"}
    /\ uc_res = <<>>
    /\ OthersIdle("Upstream")

\* evaluate_upstream_context(upstream_task_execs), with the outbound context
\* it evaluates for each task.
EvaluateUpstreamContext ==
    /\ uc_res = <<>>
    /\ uc_res' =
          <<[outbound |->
                [i \in 1..Len(uc_task_execs) |->
                    evaluate_task_outbound_context(uc_task_execs[i],
                                                   uc_strategy)],
             ctx |-> evaluate_upstream_context(
                        uc_task_execs,
                        [i \in 1..Len(uc_task_execs) |-> i],
                        uc_strategy)]>>
    /\ UNCHANGED <<uc_task_execs, uc_last, uc_strategy>>
    /\ Frame("Upstream")

NextUpstream == EvaluateUpstreamContext

SpecUpstream == InitUpstream /\ [][NextUpstream]_vars

MergedKey(t, k) ==
    /\ uc_strategy = "merge"
    /\ k \in DOMAIN t.in_context \cap DOMAIN t.published
    /\ is_dict(t.in_context[k])
    /\ is_dict(t.published[k])

NoConflict ==
    \A i, j \in 1..Len(uc_task_execs) :
        \A k \in DOMAIN uc_res[1].outbound[i] \cap DOMAIN uc_res[1].outbound[j] :
            uc_res[1].outbound[i][k] = uc_res[1].outbound[j][k]

\* C24: when no key has different values in two outbound contexts,
\* evaluate_upstream_context returns the same context for the tasks passed
\* in any order.
C24_OrderIrrelevantWithoutConflict ==
    (uc_res # <<>> /\ NoConflict) =>
        \A p \in Orders(Len(uc_task_execs)) :
            evaluate_upstream_context(uc_task_execs, p, uc_strategy) =
                uc_res[1].ctx

\* C24 witness: two different tasks whose outbound contexts share x with
\* one value, one of them holding y as well.
C24_Witness ==
    /\ uc_res # <<>>
    /\ NoConflict
    /\ Len(uc_task_execs) = 2
    /\ uc_task_execs[1] # uc_task_execs[2]
    /\ "x" \in DOMAIN uc_res[1].outbound[1] \cap DOMAIN uc_res[1].outbound[2]
    /\ "y" \in DOMAIN uc_res[1].outbound[1] \ DOMAIN uc_res[1].outbound[2]
    /\ uc_res[1].ctx = uc_res[1].outbound[1]

\* C25 as claimed: when the task that finished last and another task publish
\* a key with different values, the context holds the value of the task that
\* finished last, for the tasks passed in any order.
C25_LastCompletedWins ==
    uc_res # <<>> =>
        \A k \in DOMAIN uc_task_execs[uc_last].published :
            (\E j \in 1..Len(uc_task_execs) :
                /\ k \in DOMAIN uc_task_execs[j].published
                /\ uc_task_execs[j].published[k] #
                       uc_task_execs[uc_last].published[k])
            => \A p \in Orders(Len(uc_task_execs)) :
                  evaluate_upstream_context(uc_task_execs, p, uc_strategy)[k] =
                      uc_task_execs[uc_last].published[k]
\* The keys one task publishes and another only has in its inbound
\* context, the values published for a key and the inbound values of it.
PublishedOverInbound ==
    {k \in Keys :
        \E i, j \in 1..Len(uc_task_execs) :
            /\ i # j
            /\ k \in DOMAIN uc_task_execs[i].published
            /\ k \in DOMAIN uc_task_execs[j].in_context
            /\ k \notin DOMAIN uc_task_execs[j].published}
PublishedFor(k) ==
    {uc_task_execs[i].published[k] :
        i \in {n \in 1..Len(uc_task_execs) :
                  k \in DOMAIN uc_task_execs[n].published}}
InboundFor(k) ==
    {uc_task_execs[i].in_context[k] :
        i \in {n \in 1..Len(uc_task_execs) :
                  k \in DOMAIN uc_task_execs[n].in_context}}

----------------------------------------------------------------------------
(* workflow/data_flow.py: get_workflow_environment_dict *)

\* Bound of the environment lookup.
MaxWfExecutions == 3    \* workflow executions in the database

\* wf_ex.params of execution i: without env, with an empty env, with an env
\* of its own.
ParamsOf(i) == {<<>>, [env |-> <<>>], [env |-> [k1 |-> Val(i, "env")]]}

\* The databases: every execution is a root execution (root_execution_id
\* None) or the sub-workflow of an earlier root execution.
IsExecutionDb(db) ==
    \A i \in DOMAIN db :
        /\ db[i].params \in ParamsOf(i)
        /\ \/ db[i].root_execution_id = None
           \/ /\ db[i].root_execution_id \in 1..(i - 1)
              /\ db[db[i].root_execution_id].root_execution_id = None
ExecutionDbs ==
    UNION {{db \in [1..n -> [root_execution_id : 0..(n - 1),
                             params : UNION {ParamsOf(i) : i \in 1..n}]] :
                IsExecutionDb(db)} :
           n \in 1..MaxWfExecutions}

InitEnvDict ==
    /\ we_db \in ExecutionDbs
    /\ we_id \in DOMAIN we_db
    /\ we_res = <<>>
    /\ OthersIdle("EnvDict")

GetWorkflowEnvironmentDict ==
    /\ we_res = <<>>
    /\ we_res' = <<get_workflow_environment_dict(we_db, <<we_db[we_id]>>)>>
    /\ UNCHANGED <<we_db, we_id>>
    /\ Frame("EnvDict")

NextEnvDict == GetWorkflowEnvironmentDict

SpecEnvDict == InitEnvDict /\ [][NextEnvDict]_vars

\* C28: for an execution with a root_execution_id the dict returned is
\* {'__env': E} with E the env of the params of the root execution, empty
\* when the root has none, whatever the params of the execution itself.
C28_EnvOfRootExecution ==
    (we_res # <<>> /\ we_db[we_id].root_execution_id # None) =>
        LET root == we_db[we_db[we_id].root_execution_id]
        IN we_res[1] =
              [__env |-> Nested(IF "env" \in DOMAIN root.params
                                THEN root.params["env"]
                                ELSE <<>>)]

\* C28 witness: a sub-workflow with an env of its own, under a root with
\* another env, gets the env of the root.
C28_Witness ==
    /\ we_res # <<>>
    /\ we_id = 2
    /\ we_db[2].root_execution_id = 1
    /\ we_db[2].params = [env |-> [k1 |-> Val(2, "env")]]
    /\ we_res[1] = [__env |-> Nested([k1 |-> Val(1, "env")])]
----------------------------------------------------------------------------
(* workflow/data_flow.py: publish_variables for a task in any state *)

\* Bound of the publishing.
MaxPublishCalls == 2    \* calls of publish_variables

\* wf_ex.context before the call.
PublishContexts ==
    {InitialContext,
     [k \in {"__execution", "x"} |->
        IF k = "x" THEN Val("t0", "global") ELSE Val("wf", "execution")]}

InitPublish ==
    /\ pb_task_ex \in [state : ALL, in_context : {<<>>}, published : {<<>>}]
    /\ pb_context \in PublishContexts
    /\ pb_publish \in PublishSpecs
    /\ pb_strategy \in {"replace", "merge"}
    /\ pb_calls = 0
    /\ OthersIdle("Publish")

\* publish_variables(task_ex, task_spec) for the task t1.
PublishVariables ==
    /\ pb_calls < MaxPublishCalls
    /\ LET p == publish_variables("t1", pb_task_ex, pb_publish, pb_context,
                                  pb_strategy)
       IN /\ pb_task_ex' = [pb_task_ex EXCEPT !.published = p.published]
          /\ pb_context' = p.context
    /\ pb_calls' = pb_calls + 1
    /\ UNCHANGED <<pb_publish, pb_strategy>>
    /\ Frame("Publish")

NextPublish == PublishVariables

SpecPublish == InitPublish /\ [][NextPublish]_vars

\* C26: a call of publish_variables for a task whose state is not SUCCESS,
\* ERROR or SKIPPED leaves task_ex.published and the workflow context as
\* they were.
C26_PublishOnlyInPublishingStates ==
    [][(pb_calls' = pb_calls + 1
        /\ pb_task_ex.state \notin {SUCCESS, ERROR, SKIPPED})
       => /\ pb_task_ex'.published = pb_task_ex.published
          /\ pb_context' = pb_context]_vars

\* C26 witness: after a call for a cancelled task with a publish clause
\* naming branch and global variables, nothing is published.
C26_Witness ==
    /\ pb_calls = 1
    /\ pb_task_ex.state = CANCELLED
    /\ pb_publish = [branch |-> {"x"}, global |-> {"y"}]
    /\ pb_task_ex.published = <<>>
    /\ pb_context = InitialContext
----------------------------------------------------------------------------
(* engine/default_engine.py: on_action_complete calls in concurrent
   transactions, each completing a task and publishing its variables *)

\* The tasks of two branches running at once, each completed by its own
\* on_action_complete call.
TxTasks == {"t1", "t2"}

\* The session of a transaction that begins: what is committed, and the
\* workflow execution row as it read it.
begin_transaction(db) ==
    [tasks |-> db.tasks, context |-> db.context,
     read_context |-> db.context, read_version |-> db.version]

\* The session changed the context of the workflow execution.
dirty_context(session) == session.context # session.read_context

\* A commit that writes the task row and leaves the workflow row behind.
commit_task_row_only(db, session, t) ==
    [db EXCEPT !.tasks[t] = session.tasks[t]]

\* The commit of a transaction that worked on task t: its task row and,
\* where it changed it, the workflow execution row are written together.
commit(db, session, t) ==
    [tasks |-> [db.tasks EXCEPT ![t] = session.tasks[t]],
     context |-> IF dirty_context(session) THEN session.context
                 ELSE db.context,
     version |-> IF dirty_context(session) THEN db.version + 1
                 ELSE db.version]

\* The storage refuses a commit that rewrites a workflow execution row
\* another transaction has rewritten since this one read it.
conflicts(db, session) ==
    /\ dirty_context(session)
    /\ session.read_version # db.version

InitTx ==
    /\ tx_publish \in [TxTasks -> PublishSpecs]
    /\ tx_db = [tasks |-> [t \in TxTasks |-> NewTask(<<>>)],
                context |-> InitialContext,
                version |-> 0]
    /\ tx_session = [t \in TxTasks |-> <<>>]
    /\ tx_pc = [t \in TxTasks |-> "idle"]
    /\ tx_seen = <<>>
    /\ OthersIdle("Tx")

\* on_action_complete for the action of task t enters db_api.transaction().
BeginTransaction(t) ==
    /\ tx_pc[t] = "idle"
    /\ tx_db.tasks[t].state = RUNNING
    /\ tx_session' = [tx_session EXCEPT ![t] = <<begin_transaction(tx_db)>>]
    /\ tx_pc' = [tx_pc EXCEPT ![t] = "begun"]
    /\ UNCHANGED <<tx_db, tx_publish, tx_seen>>
    /\ Frame("Tx")

\* action_handler.on_action_complete inside the transaction: the task takes
\* its state and publish_variables runs, all on the objects of the session.
CompleteInSession(t, state) ==
    /\ tx_pc[t] = "begun"
    /\ LET session == tx_session[t][1]
           task_ex == [session.tasks[t] EXCEPT !.state = state]
           p == publish_variables(t, task_ex, tx_publish[t], session.context,
                                  "replace")
       IN tx_session' =
             [tx_session EXCEPT ![t] =
                <<[session EXCEPT
                     !.tasks[t] = [task_ex EXCEPT !.published = p.published,
                                                  !.expr_ctx = p.expr_ctx],
                     !.context = p.context]>>]
    /\ tx_pc' = [tx_pc EXCEPT ![t] = "completed"]
    /\ UNCHANGED <<tx_db, tx_publish, tx_seen>>
    /\ Frame("Tx")

\* The transaction is left: it commits, or the storage refuses the commit
\* and retry_on_db_error runs the call again.
LeaveTransaction(t) ==
    /\ tx_pc[t] = "completed"
    /\ IF conflicts(tx_db, tx_session[t][1])
       THEN /\ tx_pc' = [tx_pc EXCEPT ![t] = "idle"]
            /\ UNCHANGED tx_db
       ELSE /\ tx_db' = commit(tx_db, tx_session[t][1], t)
            /\ tx_pc' = [tx_pc EXCEPT ![t] = "done"]
    /\ tx_session' = [tx_session EXCEPT ![t] = <<>>]
    /\ UNCHANGED <<tx_publish, tx_seen>>
    /\ Frame("Tx")

\* Another transaction reads the task states and the workflow context.
ReadCommitted ==
    /\ tx_seen' = <<[state |-> [t \in TxTasks |-> tx_db.tasks[t].state],
                     context |-> tx_db.context]>>
    /\ tx_seen' # tx_seen
    /\ UNCHANGED <<tx_db, tx_publish, tx_session, tx_pc>>
    /\ Frame("Tx")

NextTx ==
    \/ \E t \in TxTasks : BeginTransaction(t)
    \/ \E t \in TxTasks, state \in {SUCCESS, ERROR, CANCELLED} :
          CompleteInSession(t, state)
    \/ \E t \in TxTasks : LeaveTransaction(t)
    \/ ReadCommitted

SpecTx == InitTx /\ [][NextTx]_vars

----------------------------------------------------------------------------
(* engine/default_engine.py: the completion check as the tasks of a workflow
   execution run and complete *)

\* The task that 'wb.wf' runs once task_name has succeeded: task2 requires
\* task1.
NextTasks(name) == IF name = "task1" THEN {"task2"} ELSE {}

\* The task execution name of workflow execution id.
task_execution(db, id, name) ==
    {t \in db.tasks : t.workflow_execution_id = id /\ t.name = name}

\* The task executions with one of them given a state.
with_task_state(db, id, name, state) ==
    [db EXCEPT !.tasks =
        {IF t.workflow_execution_id = id /\ t.name = name
         THEN [t EXCEPT !.state = state] ELSE t : t \in db.tasks}]

InitCheck == IdleCheck /\ OthersIdle("Check")

\* start_workflow with an explicit id.
CheckStartWorkflow(wf_identifier, wf_ex_id) ==
    /\ ck_db' = start_workflow(ck_db, wf_identifier, wf_ex_id,
                               [param2 |-> "Hi1"], 0).db
    /\ ck_db' # ck_db
    /\ Frame("Check")

\* start_task: task_handler.run_task moves a task execution to RUNNING.
StartTask(id, name) ==
    /\ \E t \in task_execution(ck_db, id, name) :
          t.state \in {IDLE, WAITING, RUNNING_DELAYED, PAUSED}
    /\ ck_db' = with_task_state(ck_db, id, name, RUNNING)
    /\ Frame("Check")

\* A running task execution is delayed or paused.
HoldTask(id, name, state) ==
    /\ \E t \in task_execution(ck_db, id, name) : t.state = RUNNING
    /\ ck_db' = with_task_state(ck_db, id, name, state)
    /\ Frame("Check")

\* on_action_complete for the action of a running task: the task completes,
\* on success the task requiring it is created (IDLE, or WAITING), and the
\* completion check runs.
CompleteAndCheck(id, name, state, created) ==
    /\ \E t \in task_execution(ck_db, id, name) : t.state = RUNNING
    /\ LET db1 == with_task_state(ck_db, id, name, state)
           new == IF state = SUCCESS
                  THEN {[workflow_execution_id |-> id, name |-> n,
                         state |-> created] : n \in NextTasks(name)}
                  ELSE {}
           db2 == [db1 EXCEPT !.tasks = db1.tasks \cup new]
       IN ck_db' = check_and_complete(db2, id)
    /\ Frame("Check")

NextCheck ==
    \/ \E wf_identifier \in WfIdentifiers, wf_ex_id \in ExplicitIds :
          CheckStartWorkflow(wf_identifier, wf_ex_id)
    \/ \E id \in ExplicitIds, name \in {"task1", "task2"} : StartTask(id, name)
    \/ \E id \in ExplicitIds, name \in {"task1", "task2"},
          state \in {RUNNING_DELAYED, PAUSED} : HoldTask(id, name, state)
    \/ \E id \in ExplicitIds, name \in {"task1", "task2"},
          state \in {SUCCESS, ERROR}, created \in {IDLE, WAITING} :
          CompleteAndCheck(id, name, state, created)

SpecCheck == InitCheck /\ [][NextCheck]_vars

\* C29: a workflow execution one of whose task executions is in a state that
\* is not completed is RUNNING, never SUCCESS or ERROR.
C29_RunningWhileTaskNotCompleted ==
    \A e \in ck_db.wf :
        (\E t \in ck_db.tasks :
            /\ t.workflow_execution_id = e.id
            /\ t.state \in {IDLE, WAITING, RUNNING, RUNNING_DELAYED, PAUSED})
        => e.state = RUNNING

\* C29 witness: task1 of execution 1 has succeeded and the check has run;
\* task2 is paused and the workflow is running.
C29_Witness ==
    /\ \E t \in task_execution(ck_db, 1, "task1") : t.state = SUCCESS
    /\ \E t \in task_execution(ck_db, 1, "task2") : t.state = PAUSED
    /\ \E e \in ck_db.wf : e.id = 1 /\ e.state = RUNNING
----------------------------------------------------------------------------
(* engine/default_engine.py: start_workflow calls with explicit ids running
   concurrently *)

\* The except clause left out: the error goes to the caller.
on_duplicate_entry_raised(db, wf_ex_id) ==
    [ret |-> {}, exc |-> <<[class |-> "DBDuplicateEntryError"]>>]

\* except exceptions.DBDuplicateEntryError: the existing execution is read
\* in a new transaction and returned.
on_duplicate_entry(db, wf_ex_id) ==
    [ret |-> get_workflow_execution(db, wf_ex_id), exc |-> <<>>]

StartCalls ==
    [wf_identifier : WfIdentifiers, wf_ex_id : ExplicitIds, wf_input : WfInputs]

InitConcurrentStart ==
    /\ cs_db = [wf |-> {}, tasks |-> {}]
    /\ cs_call \in [Workers -> StartCalls]
    /\ cs_pc = [w \in Workers |-> "called"]
    /\ cs_session = [w \in Workers |-> <<>>]
    /\ cs_ret = [w \in Workers |-> {}]
    /\ cs_exc = [w \in Workers |-> <<>>]
    /\ cs_commits = {}
    /\ OthersIdle("ConcurrentStart")

\* The first transaction up to its commit: wf_handler.start_workflow and
\* check_and_complete work on what is committed and on the rows of the
\* session; an id that is committed already is refused at once.
InsertInSession(w) ==
    /\ cs_pc[w] = "called"
    /\ LET r == wf_handler_start_workflow(
                    cs_db, cs_call[w].wf_identifier, cs_call[w].wf_ex_id,
                    cs_call[w].wf_input, 0)
       IN IF r.exc = "DBDuplicateEntryError"
          THEN /\ cs_pc' = [cs_pc EXCEPT ![w] = "duplicate"]
               /\ UNCHANGED cs_session
          ELSE /\ cs_pc' = [cs_pc EXCEPT ![w] = "inserted"]
               /\ cs_session' =
                     [cs_session EXCEPT ![w] =
                        <<check_and_complete(r.db, r.id)>>]
    /\ UNCHANGED <<cs_db, cs_call, cs_ret, cs_exc, cs_commits>>
    /\ Frame("ConcurrentStart")

\* The first transaction commits and the call returns the clone, unless
\* another transaction has committed the id meanwhile: then the store
\* refuses the rows and the transaction is rolled back.
CommitInsert(w) ==
    /\ cs_pc[w] = "inserted"
    /\ LET id == cs_call[w].wf_ex_id
           session == cs_session[w][1]
       IN IF get_workflow_execution(cs_db, id) # {}
          THEN /\ cs_pc' = [cs_pc EXCEPT ![w] = "duplicate"]
               /\ UNCHANGED <<cs_db, cs_ret, cs_commits>>
          ELSE /\ cs_db' =
                     [wf |-> cs_db.wf \cup get_workflow_execution(session, id),
                      tasks |-> cs_db.tasks \cup
                          {t \in session.tasks : t.workflow_execution_id = id}]
               /\ cs_ret' = [cs_ret EXCEPT ![w] =
                                get_workflow_execution(session, id)]
               /\ cs_commits' = cs_commits \cup {w}
               /\ cs_pc' = [cs_pc EXCEPT ![w] = "done"]
    /\ cs_session' = [cs_session EXCEPT ![w] = <<>>]
    /\ UNCHANGED <<cs_call, cs_exc>>
    /\ Frame("ConcurrentStart")

\* The except clause of the call whose rows were refused.
HandleDuplicateEntry(w) ==
    /\ cs_pc[w] = "duplicate"
    /\ LET r == on_duplicate_entry(cs_db, cs_call[w].wf_ex_id)
       IN /\ cs_ret' = [cs_ret EXCEPT ![w] = r.ret]
          /\ cs_exc' = [cs_exc EXCEPT ![w] = r.exc]
    /\ cs_pc' = [cs_pc EXCEPT ![w] = "done"]
    /\ UNCHANGED <<cs_db, cs_call, cs_session, cs_commits>>
    /\ Frame("ConcurrentStart")

NextConcurrentStart ==
    \/ \E w \in Workers : InsertInSession(w)
    \/ \E w \in Workers : CommitInsert(w)
    \/ \E w \in Workers : HandleDuplicateEntry(w)

SpecConcurrentStart == InitConcurrentStart /\ [][NextConcurrentStart]_vars

\* C30: when two calls with the same execution id have returned, one
\* execution with that id exists, the rows of exactly one of the calls were
\* committed, both calls returned that execution and neither raised.
C30_ConcurrentStartsCreateOne ==
    \A w1, w2 \in Workers :
        (/\ w1 # w2
         /\ cs_call[w1].wf_ex_id = cs_call[w2].wf_ex_id
         /\ cs_pc[w1] = "done" /\ cs_pc[w2] = "done") =>
            LET id == cs_call[w1].wf_ex_id
                created == {w \in cs_commits : cs_call[w].wf_ex_id = id}
            IN /\ Cardinality(get_workflow_execution(cs_db, id)) = 1
               /\ Cardinality(created) = 1
               /\ \A c \in created :
                     {t.name : t \in {u \in cs_db.tasks :
                                         u.workflow_execution_id = id}}
                         = RootTasks(cs_call[c].wf_identifier)
               /\ cs_ret[w1] = get_workflow_execution(cs_db, id)
               /\ cs_ret[w2] = get_workflow_execution(cs_db, id)
               /\ cs_exc[w1] = <<>>
               /\ cs_exc[w2] = <<>>

\* C30 witness: two calls for id 1 with different inputs have returned; the
\* rows of worker 1 were committed, worker 2 was refused and returned the
\* execution worker 1 created.
C30_Witness ==
    /\ cs_call[1].wf_ex_id = 1
    /\ cs_call[2].wf_ex_id = 1
    /\ cs_call[1].wf_input # cs_call[2].wf_input
    /\ cs_pc[1] = "done"
    /\ cs_pc[2] = "done"
    /\ cs_commits = {1}
    /\ cs_ret[2] = cs_ret[1]
    /\ \E e \in cs_ret[2] : e.input = cs_call[1].wf_input
----------------------------------------------------------------------------
(* engine/default_engine.py: the engine operations under transient storage
   errors *)

\* Bounds of the retries.
MaxTransientErrors == 2 \* transient storage errors during one call
MaxStoreValue == 2      \* values of the record the operation reads: 0..MaxStoreValue

\* The operations of the engine, and those decorated with
\* @db_utils.retry_on_db_error.
EngineOperations ==
    {"start_workflow", "start_task", "start_action", "on_action_complete",
     "on_action_update", "pause_workflow", "resume_workflow", "stop_workflow",
     "rerun_workflow", "process_action_heartbeats"}
retry_on_db_error(op) == op \in EngineOperations \ {"start_task"}

InitRetry ==
    /\ rt_op \in EngineOperations
    /\ rt_store \in 0..MaxStoreValue
    /\ rt_errors \in 0..MaxTransientErrors
    /\ rt_attempts = 0
    /\ rt_out = <<>>
    /\ OthersIdle("Retry")

\* An attempt of the operation hits a transient storage error: the
\* transaction is rolled back, and the decorator, where there is one, runs
\* the operation again; without it the error reaches the caller.
AttemptFails ==
    /\ rt_out = <<>>
    /\ rt_errors > 0
    /\ rt_errors' = rt_errors - 1
    /\ rt_attempts' = rt_attempts + 1
    /\ rt_out' = IF retry_on_db_error(rt_op) THEN <<>>
                 ELSE <<[exc |-> "DBError", ret |-> <<>>]>>
    /\ UNCHANGED <<rt_op, rt_store>>
    /\ Frame("Retry")

\* An attempt runs its transaction to the end: it reads the record as it is
\* stored now and returns it.
AttemptSucceeds ==
    /\ rt_out = <<>>
    /\ rt_errors = 0
    /\ rt_attempts' = rt_attempts + 1
    /\ rt_out' = <<[exc |-> "", ret |-> <<rt_store>>]>>
    /\ UNCHANGED <<rt_op, rt_store, rt_errors>>
    /\ Frame("Retry")

\* Another transaction changes the record while the call is under way.
StoreChanges(v) ==
    /\ rt_out = <<>>
    /\ rt_attempts > 0
    /\ v # rt_store
    /\ rt_store' = v
    /\ UNCHANGED <<rt_op, rt_errors, rt_attempts, rt_out>>
    /\ Frame("Retry")

NextRetry ==
    \/ AttemptFails
    \/ AttemptSucceeds
    \/ \E v \in 0..MaxStoreValue : StoreChanges(v)

SpecRetry == InitRetry /\ [][NextRetry]_vars

\* C31 as claimed: whatever the operation, a call during which transient
\* storage errors occurred returns without an error what a later attempt
\* read from the store.
C31_TransientErrorsInvisible ==
    rt_out # <<>> => rt_out[1] = [exc |-> "", ret |-> <<rt_store>>]
----------------------------------------------------------------------------
(* workflow/data_flow.py: the sources of the view publish expressions are
   evaluated against *)

\* The value a source gives a key: a plain value, or a dict with an entry
\* named after the source.
SourceValues(source) ==
    {Val(source, "value"), Nested([sk \in {source} |-> Val(source, "value")])}
SourceDicts(source, keys) ==
    UNION {[K -> SourceValues(source)] : K \in SUBSET keys}

\* The keys an expression may read.
ExprKeys == {"x", "__env", "__task_execution"}

InitExprCtx ==
    /\ ex_in_context \in SourceDicts("in_context", ExprKeys)
    /\ ex_wf_ex \in
          [root_execution_id : {None},
           params : {<<>>, [env |-> [k1 |-> Val("params", "value")]]},
           context : SourceDicts("context", {"x", "__env"}),
           input : SourceDicts("input", {"x"})]
    /\ ex_strategy \in {"replace", "merge"}
    /\ ex_key \in ExprKeys
    /\ ex_res = <<>>
    /\ OthersIdle("ExprCtx")

\* The view is built as publish_variables builds it for task t1 and an
\* expression reads the key.
EvaluateKey ==
    /\ ex_res = <<>>
    /\ ex_res' = <<ContextView_getitem(
                      expr_ctx_view("t1", ex_in_context, ex_wf_ex, ex_strategy),
                      ex_key)>>
    /\ UNCHANGED <<ex_in_context, ex_wf_ex, ex_strategy, ex_key>>
    /\ Frame("ExprCtx")

NextExprCtx == EvaluateKey

SpecExprCtx == InitExprCtx /\ [][NextExprCtx]_vars

\* The sources in the order of their priority, and the values they give the
\* key, highest priority first.
Sources ==
    <<[__task_execution |->
          Nested([id |-> Val("t1", "id"), name |-> Val("t1", "name")])],
      ex_in_context,
      [__env |-> Nested(IF "env" \in DOMAIN ex_wf_ex.params
                        THEN ex_wf_ex.params["env"] ELSE <<>>)],
      ex_wf_ex.context,
      ex_wf_ex.input>>
SourceValuesOf(key) ==
    LET holding == SelectSeq(Sources, LAMBDA d : key \in DOMAIN d)
    IN [i \in 1..Len(holding) |-> holding[i][key]]

----------------------------------------------------------------------------
(* engine/default_engine.py: workflow executions whose tasks are all started
   and whose actions all complete successfully *)

\* The rows of execution id as check_and_complete reads them.
rows_of(id, wf_state, tasks) ==
    [wf |-> {[id |-> id, state |-> wf_state, trail |-> <<>>]},
     tasks |-> {[workflow_execution_id |-> id, name |-> t,
                 state |-> tasks[t].state] : t \in DOMAIN tasks}]

\* The state of the workflow execution after the completion check.
checked_state(id, wf_state, tasks) ==
    LET db == check_and_complete(rows_of(id, wf_state, tasks), id)
    IN (CHOOSE e \in db.wf : TRUE).state

InitRun ==
    /\ rn_wf = [id \in ExplicitIds |-> "none"]
    /\ rn_tasks = [id \in ExplicitIds |-> <<>>]
    /\ OthersIdle("Run")

\* start_workflow: the entry tasks are created and the workflow runs.
RunStartWorkflow(id) ==
    /\ rn_wf[id] = "none"
    /\ LET tasks == [t \in EntryTasks |-> [state |-> IDLE]]
       IN /\ rn_tasks' = [rn_tasks EXCEPT ![id] = tasks]
          /\ rn_wf' = [rn_wf EXCEPT ![id] = checked_state(id, RUNNING, tasks)]
    /\ Frame("Run")

\* start_task: a created task of a running workflow starts to run.
RunStartTask(id, t) ==
    /\ rn_wf[id] = RUNNING
    /\ t \in DOMAIN rn_tasks[id]
    /\ rn_tasks[id][t].state = IDLE
    /\ rn_tasks' = [rn_tasks EXCEPT ![id][t].state = RUNNING]
    /\ UNCHANGED rn_wf
    /\ Frame("Run")

\* on_action_complete with a successful result for the action of a running
\* task: the task succeeds, the tasks it enables are created, and the
\* completion check runs.
RunOnActionComplete(id, t) ==
    /\ rn_wf[id] = RUNNING
    /\ t \in DOMAIN rn_tasks[id]
    /\ rn_tasks[id][t].state = RUNNING
    /\ LET done == [rn_tasks[id] EXCEPT ![t].state = SUCCESS]
           new == Triggered(done)
           tasks == [u \in DOMAIN done \cup new |->
                        IF u \in new THEN [state |-> IDLE] ELSE done[u]]
       IN /\ rn_tasks' = [rn_tasks EXCEPT ![id] = tasks]
          /\ rn_wf' = [rn_wf EXCEPT ![id] = checked_state(id, RUNNING, tasks)]
    /\ Frame("Run")

NextRun ==
    \/ \E id \in ExplicitIds : RunStartWorkflow(id)
    \/ \E id \in ExplicitIds, t \in FlowTasks : RunStartTask(id, t)
    \/ \E id \in ExplicitIds, t \in FlowTasks : RunOnActionComplete(id, t)

\* Every created task is started and every action completes: a step that
\* can be taken is taken.
SpecRun == InitRun /\ [][NextRun]_vars /\ WF_vars(NextRun)

\* C33: a running workflow execution all of whose tasks are started and
\* completed successfully reaches SUCCESS with all its tasks created and in
\* SUCCESS.
C33_AllSucceededLeadsToSuccess ==
    \A id \in ExplicitIds :
        (rn_wf[id] = RUNNING) ~>
            (/\ rn_wf[id] = SUCCESS
             /\ DOMAIN rn_tasks[id] = FlowTasks
             /\ \A t \in FlowTasks : rn_tasks[id][t].state = SUCCESS)

\* C33 witness: execution 1 is in SUCCESS after its five tasks succeeded,
\* while execution 2 still runs.
C33_Witness ==
    /\ rn_wf[1] = SUCCESS
    /\ rn_wf[2] = RUNNING
    /\ DOMAIN rn_tasks[1] = FlowTasks
    /\ \A t \in FlowTasks : rn_tasks[1][t].state = SUCCESS
----------------------------------------------------------------------------
(* workflow/data_flow.py: get_workflow_environment_dict call by call, over
   any references between executions *)

\* Bounds of the chains.
MaxChained == 3         \* workflow executions in the database
RecursionLimit == 5     \* nested calls the interpreter allows

\* Executions whose root_execution_id is None or the id of any execution,
\* their own included.
ChainDbs ==
    UNION {[1..n -> [root_execution_id : 0..n,
                     params : {<<>>, [env |-> [k1 |-> Val("wf", "env")]]}]] :
           n \in 1..MaxChained}

InitChain ==
    /\ ch_db \in ChainDbs
    /\ ch_wf_ex \in DOMAIN ch_db
    /\ ch_depth = 1
    /\ ch_res = <<>>
    /\ OthersIdle("Chain")

\* if wf_ex.root_execution_id:
\*     return get_workflow_environment_dict(wf_ex.root_execution)
\* One more nested call, or RecursionError at the limit of the interpreter.
CallForRoot ==
    /\ ch_res = <<>>
    /\ ch_db[ch_wf_ex].root_execution_id # None
    /\ IF ch_depth = RecursionLimit
       THEN /\ ch_res' = <<[exc |-> "RecursionError", ret |-> <<>>]>>
            /\ UNCHANGED <<ch_wf_ex, ch_depth>>
       ELSE /\ ch_wf_ex' = ch_db[ch_wf_ex].root_execution_id
            /\ ch_depth' = ch_depth + 1
            /\ UNCHANGED ch_res
    /\ UNCHANGED ch_db
    /\ Frame("Chain")

\* return {'__env': env_dict}
ReturnEnv ==
    /\ ch_res = <<>>
    /\ ch_db[ch_wf_ex].root_execution_id = None
    /\ ch_res' = <<[exc |-> "",
                    ret |-> [__env |->
                        Nested(env_of_params(ch_db[ch_wf_ex].params))]]>>
    /\ UNCHANGED <<ch_db, ch_wf_ex, ch_depth>>
    /\ Frame("Chain")

NextChain == CallForRoot \/ ReturnEnv

SpecChain == InitChain /\ [][NextChain]_vars

\* C34 as claimed: whatever the references between the executions, cyclic
\* ones included, the lookup ends by returning a dict.
C34_LookupReturnsOnEveryChain ==
    ch_res # <<>> => ch_res[1].exc = ""
----------------------------------------------------------------------------
(* engine/default_engine.py: start_action *)

\* Bound of the calls.
MaxStartActions == 2    \* start_action calls

\* A call: params.get('run_sync'), params.get('save_result'),
\* action.is_sync() of the action named, and output.is_success() of its run
\* if it is run.
StartActionCalls ==
    [run_sync : BOOLEAN, save_result : BOOLEAN, is_action_sync : BOOLEAN,
     is_success : BOOLEAN]

\* The id of the next action execution created.
new_action_ex_id(db) == Cardinality(db) + 1

\* start_action persisting the action execution of every action it runs.
start_action_always_saved(db, scheduled, call) ==
    IF call.run_sync /\ ~call.is_action_sync
    THEN [exc |-> "InputException", ret |-> <<>>, db |-> db,
          scheduled |-> scheduled, ran |-> FALSE]
    ELSE IF ~call.run_sync /\ (call.save_result \/ ~call.is_action_sync)
    THEN LET action_ex == [id |-> new_action_ex_id(db), state |-> RUNNING]
         IN [exc |-> "", ret |-> <<action_ex>>, db |-> db \cup {action_ex},
             scheduled |-> scheduled \cup {action_ex.id}, ran |-> FALSE]
    ELSE LET state == IF call.is_success THEN SUCCESS ELSE ERROR
             action_ex == [id |-> new_action_ex_id(db), state |-> state]
         IN [exc |-> "", ret |-> <<action_ex>>, db |-> db \cup {action_ex},
             scheduled |-> scheduled, ran |-> TRUE]

\* start_action(action_name, action_input, **params): what is raised or
\* returned, the action executions persisted and scheduled afterwards, and
\* whether the action was run inside the call.  An action execution that is
\* not persisted has no id (None).
start_action(db, scheduled, call) ==
    IF call.run_sync /\ ~call.is_action_sync
    THEN [exc |-> "InputException", ret |-> <<>>, db |-> db,
          scheduled |-> scheduled, ran |-> FALSE]
    ELSE IF ~call.run_sync /\ (call.save_result \/ ~call.is_action_sync)
    THEN LET action_ex == [id |-> new_action_ex_id(db), state |-> RUNNING]
         IN [exc |-> "", ret |-> <<action_ex>>, db |-> db \cup {action_ex},
             scheduled |-> scheduled \cup {action_ex.id}, ran |-> FALSE]
    ELSE LET state == IF call.is_success THEN SUCCESS ELSE ERROR
         IN IF ~call.save_result
            THEN [exc |-> "", ret |-> <<[id |-> None, state |-> state]>>,
                  db |-> db, scheduled |-> scheduled, ran |-> TRUE]
            ELSE LET action_ex == [id |-> new_action_ex_id(db), state |-> state]
                 IN [exc |-> "", ret |-> <<action_ex>>,
                     db |-> db \cup {action_ex}, scheduled |-> scheduled,
                     ran |-> TRUE]

InitAction == IdleAction /\ OthersIdle("Action")

StartAction(call) ==
    /\ Len(sa_calls) < MaxStartActions
    /\ LET r == start_action(sa_db, sa_scheduled, call)
       IN /\ sa_db' = r.db
          /\ sa_scheduled' = r.scheduled
          /\ sa_runs' = IF r.ran THEN sa_runs + 1 ELSE sa_runs
          /\ sa_out' = <<[exc |-> r.exc, ret |-> r.ret]>>
    /\ sa_calls' = Append(sa_calls, call)
    /\ Frame("Action")

NextAction == \E call \in StartActionCalls : StartAction(call)

SpecAction == InitAction /\ [][NextAction]_vars

\* C35: a call with run_sync for an asynchronous action raises
\* InputException and schedules, runs and persists nothing; a call without
\* run_sync for which save_result is set or the action is asynchronous
\* schedules the action without running it and returns the record it
\* persisted; every other call runs the action, schedules nothing, persists
\* an action execution exactly if save_result is set, and returns the state
\* SUCCESS if the result is successful and ERROR otherwise.
C35_StartActionCases ==
    [][Len(sa_calls') = Len(sa_calls) + 1 =>
        LET call == sa_calls'[Len(sa_calls')]
            out == sa_out'[1]
        IN IF call.run_sync /\ ~call.is_action_sync
           THEN /\ out = [exc |-> "InputException", ret |-> <<>>]
                /\ UNCHANGED <<sa_db, sa_scheduled, sa_runs>>
           ELSE IF ~call.run_sync /\ (call.save_result \/ ~call.is_action_sync)
           THEN /\ out.exc = ""
                /\ sa_runs' = sa_runs
                /\ out.ret[1] \notin sa_db
                /\ sa_db' = sa_db \cup {out.ret[1]}
                /\ sa_scheduled' = sa_scheduled \cup {out.ret[1].id}
           ELSE /\ out.exc = ""
                /\ sa_runs' = sa_runs + 1
                /\ sa_scheduled' = sa_scheduled
                /\ out.ret[1].state = IF call.is_success THEN SUCCESS ELSE ERROR
                /\ IF call.save_result
                   THEN out.ret[1] \notin sa_db /\ sa_db' = sa_db \cup {out.ret[1]}
                   ELSE sa_db' = sa_db]_vars

\* C35 witness: a synchronous action was run without save_result and
\* failed: ERROR was returned and nothing was persisted; then an
\* asynchronous action was scheduled and its record persisted.
C35_Witness ==
    /\ Len(sa_calls) = 2
    /\ sa_calls[1] = [run_sync |-> TRUE, save_result |-> FALSE,
                      is_action_sync |-> TRUE, is_success |-> FALSE]
    /\ ~sa_calls[2].run_sync /\ ~sa_calls[2].is_action_sync
    /\ sa_runs = 1
    /\ sa_db = {[id |-> 1, state |-> RUNNING]}
    /\ sa_scheduled = {1}
----------------------------------------------------------------------------
(* llm_app/views.py: select_model and query *)

\* Bound of the LLM app model.
MaxRequests == 4        \* requests answered with 200

\* The browser sessions, the keys of the models dict, the model names a body
\* can carry, the request methods and the questions asked.
Sessions == {"a", "b"}
models == {"llama2", "mistral"}
ModelNames == models \cup {"gpt"}
Methods == {"POST", "GET"}
Questions == {"q1", "q2"}

\* model.query(question, context=...): the answer of the model (llm_library),
\* which is kept apart by the model and the question it answers.
model_query(model_name, question) == [model |-> model_name, to |-> question]

JsonResponse(body, status) == [body |-> body, status |-> status]

InitLlm ==
    /\ lm_session = [s \in Sessions |-> ""]
    /\ lm_context = <<>>
    /\ lm_call = <<>>
    /\ lm_resp = <<>>
    /\ lm_log = <<>>
    /\ OthersIdle("Llm")

\* select_model(request) of session s with body {'model': model_name}.
SelectModel(s, method, model_name) ==
    /\ Len(lm_log) < MaxRequests
    /\ IF method # "POST"
       THEN /\ lm_resp' = <<JsonResponse("Invalid request method", 405)>>
            /\ UNCHANGED <<lm_session, lm_context, lm_log>>
       ELSE IF model_name \in models
       THEN /\ lm_session' = [lm_session EXCEPT ![s] = model_name]
            /\ lm_context' = <<>>
            /\ lm_resp' = <<JsonResponse("Model selected", 200)>>
            /\ lm_log' = Append(lm_log, [session |-> s,
                                         view |-> "select_model",
                                         arg |-> model_name])
       ELSE /\ lm_resp' = <<JsonResponse("Model not found", 400)>>
            /\ UNCHANGED <<lm_session, lm_context, lm_log>>
    /\ UNCHANGED lm_call
    /\ Frame("Llm")

\* query(request) of session s with body {'question': question}.
Query(s, method, question) ==
    /\ Len(lm_log) < MaxRequests
    /\ IF method # "POST"
       THEN /\ lm_resp' = <<JsonResponse("Invalid request method", 405)>>
            /\ UNCHANGED <<lm_context, lm_call, lm_log>>
       ELSE IF lm_session[s] = ""
       THEN /\ lm_resp' = <<JsonResponse("No model selected", 400)>>
            /\ UNCHANGED <<lm_context, lm_call, lm_log>>
       ELSE LET asked == Append(lm_context, [question |-> question])
                response == model_query(lm_session[s], question)
            IN /\ lm_call' = <<[session |-> s,
                                model |-> lm_session[s],
                                question |-> question,
                                context |-> asked]>>
               /\ lm_context' = Append(asked, [response |-> response])
               /\ lm_resp' = <<JsonResponse(response, 200)>>
               /\ lm_log' = Append(lm_log, [session |-> s,
                                            view |-> "query",
                                            arg |-> question])
    /\ UNCHANGED lm_session
    /\ Frame("Llm")

NextLlm ==
    \E s \in Sessions, method \in Methods :
        \/ \E model_name \in ModelNames : SelectModel(s, method, model_name)
        \/ \E question \in Questions : Query(s, method, question)

SpecLlm == InitLlm /\ [][NextLlm]_vars

\* The place in the log of the last select_model of session s, 0 if none.
LastSelect(log, s) ==
    LET at == {i \in 1..Len(log) :
                  log[i].session = s /\ log[i].view = "select_model"}
    IN IF at = {} THEN 0 ELSE CHOOSE i \in at : \A j \in at : j <= i

\* The model session s has selected by the requests of the log.
SelectedIn(log, s) ==
    IF LastSelect(log, s) = 0 THEN "" ELSE log[LastSelect(log, s)].arg

\* The questions of session s and the responses to them from place i of the
\* log on, in order.
RECURSIVE OwnSince(_, _, _)
OwnSince(log, s, i) ==
    IF i > Len(log)
    THEN <<>>
    ELSE (IF log[i].session = s /\ log[i].view = "query"
          THEN <<[question |-> log[i].arg],
                 [response |-> model_query(SelectedIn(log, s), log[i].arg)]>>
          ELSE <<>>) \o OwnSince(log, s, i + 1)

\* C40 as claimed: the context given to the model by a query of a session is
\* the questions and responses of that session since its last select_model,
\* with the question of the query at the end, whatever the other sessions
\* have asked or selected in between.
C40_ContextOfRequestingSessionOnly ==
    [][(/\ Len(lm_log') = Len(lm_log) + 1
        /\ lm_log'[Len(lm_log')].view = "query") =>
          LET s == lm_call'[1].session
          IN lm_call'[1].context =
                 Append(OwnSince(lm_log, s, LastSelect(lm_log, s) + 1),
                        [question |-> lm_call'[1].question])]_vars

====
